---------------------------- MODULE Spec2Model ----------------------------
(***************************************************************************)
(* Verification model of the coinmaster dashboard (script.js) and of its   *)
(* price-database scripts: the day-index mapper, the two quantile          *)
(* regression fitters and the predictors.                                  *)
(*                                                                         *)
(* Numbers.  A JavaScript number is modelled by a record [k, m, e]:         *)
(*   [k |-> "fin", m, e]      the finite value m * 10^e (decimal floating   *)
(*                            point, DIGITS significant digits),            *)
(*   NaN, PInf, NInf          the three non-finite doubles,                *)
(*   Undefined, Null          the two JavaScript non-values.               *)
(* A result beyond 10^MaxExp overflows to +/-Infinity as a binary64 does    *)
(* beyond 1.8e308: the model keeps the IEEE rules for NaN, the infinities   *)
(* and rounding, and narrows the exponent range and the precision.          *)
(* Millisecond timestamps do not fit the model checker's integers; they    *)
(* are kept exact as three digits in radix MS_PER_DAY (type Wide).         *)
(***************************************************************************)
EXTENDS Integers, Sequences, FiniteSets, TLC

VARIABLES cal, wholeDays, walkDir

\* one call of a fitter: its arguments, its position, its locals, its result
VARIABLES fn, dates, prices, tau, iterations, pc, step, par, mom, ctx, result,
          run, first, trace

\* one call of a predictor: its arguments, its position, what it returns and
\* the text of the value in a cell of the price file
VARIABLES pfn, pargs, ppc, pout, pcell

\* one call of rollingAverage: its arguments, its position and the array it
\* returns
VARIABLES values, windowSize, apc, averages

\* the dashboard's series assembly: the row array the caller holds (rows), the
\* array attachCalculatedMovingAverages returns (attached), the position, and
\* what calculatePowerLaw shows for a currency
VARIABLES rows, attached, atpc, kpiCurrency, kpi

\* one reader of the price file and two files with the same content, the
\* second with its columns moved or with one more column: the reader called
\* (reader), the files (table, tableAlt), the position, the rows the dashboard
\* keeps before the indicators are attached (validRows) and what the two calls
\* return (readRows, readRowsAlt)
VARIABLES reader, table, tableAlt, rdpc, validRows, readRows, readRowsAlt

\* the price panel of the dashboard: the price file on the server, the position
\* of loadBitcoinData, how the price API request of the latest call ended, how
\* the fetch of the price file of the latest call ended, the texts of the
\* panel and the message the latest call gave to showError
VARIABLES priceFile, bpc, apiOutcome, fileOutcome, panel, reported

\* the chart of the dashboard: the price file on the server with the rows a
\* fetch of it gives, the position of
\* initApp, the globals localPriceRows, currentChartDays, currentChartCurrency
\* and chartRequestId, the calls of loadChartData by their requestId (the days
\* asked for, where the call waits, how its API request and its fetch of the
\* price file ended, what the call did in the end), the latest call of
\* updateChart and the latest message given to showError
VARIABLES chartFile, appc, localPriceRows, currentChartDays, currentChartCurrency,
          chartRequestId, requests, chart, chartReport

\* the update script and the price DB: which script runs (script), the file
\* (db), the position of main and its locals existing and lastDate
VARIABLES script, db, upc, existing, lastDate

\* one call of extendSeriesWithProjection: the global projectionDate, the
\* parameters getSingleTermPowerLawParams gives for the three series, the
\* argument, the position of the call and what it returned
VARIABLES projectionDate, projectionParams, priceSeries, jpc, projected

\* the indicator buttons and the chart: the global maVisibility, the chart
\* object btcChart (the hidden flags of its datasets and its formula list)
\* and the series for which getSingleTermPowerLawParams gives parameters
VARIABLES maVisibility, btcChart, fittedSeries

dayVars == <<cal, wholeDays, walkDir>>
predVars == <<pfn, pargs, ppc, pout, pcell>>
avgVars == <<values, windowSize, apc, averages>>
attachVars == <<rows, attached, atpc, kpiCurrency, kpi>>
readVars == <<reader, table, tableAlt, rdpc, validRows, readRows, readRowsAlt>>

fitArgs == <<fn, dates, prices, tau, iterations>>
fitVars == <<fitArgs, pc, step, par, mom, ctx, result, run, first, trace>>

\* what the steps of one part of the model leave alone
priceVars == <<priceFile, bpc, apiOutcome, fileOutcome, panel, reported>>
chartVars == <<chartFile, appc, localPriceRows, currentChartDays, currentChartCurrency,
               chartRequestId, requests, chart, chartReport>>
dbVars == <<script, db, upc, existing, lastDate>>
projVars == <<projectionDate, projectionParams, priceSeries, jpc, projected>>
toggleVars == <<maVisibility, btcChart, fittedSeries>>
uiVars == <<projVars, toggleVars>>
lateVars == <<readVars, priceVars, chartVars, dbVars, uiVars>>
otherVars == <<avgVars, attachVars, lateVars>>
notDay == <<fitVars, predVars, otherVars>>
notFit == <<dayVars, predVars, otherVars>>
notPred == <<dayVars, fitVars, otherVars>>
notAvg == <<dayVars, fitVars, predVars, attachVars, lateVars>>
notAttach == <<dayVars, fitVars, predVars, avgVars, lateVars>>
earlyVars == <<dayVars, fitVars, predVars, avgVars, attachVars>>
notRead == <<earlyVars, priceVars, chartVars, dbVars, uiVars>>
notPrice == <<earlyVars, readVars, chartVars, dbVars, uiVars>>
notChart == <<earlyVars, readVars, priceVars, dbVars, uiVars>>
notDb == <<earlyVars, readVars, priceVars, chartVars, uiVars>>
notProj == <<earlyVars, readVars, priceVars, chartVars, dbVars, toggleVars>>
notToggle == <<earlyVars, readVars, priceVars, chartVars, dbVars, projVars>>

vars == <<dayVars, fitVars, predVars, otherVars>>

-----------------------------------------------------------------------------
(* Bounds of the model *)

\* days walked back from the genesis date (reaches 1969-12-25)
MaxBack == 14254
\* days walked forward from the genesis date
MaxFwd == 600
\* the largest decimal exponent of a finite number
MaxExp == 30
\* the largest integer exponent computed by repeated multiplication
MaxIntPow == 16
\* the longest dates/prices arrays given to a fitter
MaxLen == 5
\* the largest options.iterations given to a fitter
MaxIter == 2

-----------------------------------------------------------------------------
(* Calendar: what Date.parse and new Date(...).getTime() compute for the   *)
(* string `${date}T00:00:00Z` (ECMAScript MakeDay / MakeDate).             *)

MS_PER_DAY == 1000 * 60 * 60 * 24

MkDate(y, m, d) == [y |-> y, m |-> m, d |-> d]

GENESIS_DATE == MkDate(2009, 1, 3)

\* a string that is no date at all, e.g. 'garbage'
BadDate == MkDate(0, 0, 0)

IsLeap(y) == (y % 4 = 0) /\ ((y % 100 # 0) \/ (y % 400 = 0))

DaysInMonth(y, m) ==
    IF m = 2 THEN (IF IsLeap(y) THEN 29 ELSE 28)
    ELSE IF m \in {4, 6, 9, 11} THEN 30 ELSE 31

WellFormed(date) ==
    /\ date.y \in 1..9999
    /\ date.m \in 1..12
    /\ date.d \in 1..DaysInMonth(date.y, date.m)

\* ECMAScript DayFromYear
DayFromYear(y) ==
    365 * (y - 1970) + ((y - 1969) \div 4) - ((y - 1901) \div 100)
        + ((y - 1601) \div 400)

RECURSIVE DaysBeforeMonth(_, _)
DaysBeforeMonth(y, m) ==
    IF m = 1 THEN 0 ELSE DaysBeforeMonth(y, m - 1) + DaysInMonth(y, m - 1)

\* days from 1970-01-01 to a well-formed date
EpochDay(date) == DayFromYear(date.y) + DaysBeforeMonth(date.y, date.m) + date.d - 1

-----------------------------------------------------------------------------
(* Wide integers: <<d2, d1, d0>> is d2*M*M + d1*M + d0 with M = MS_PER_DAY, *)
(* d1 and d0 in 0..M-1 and d2 signed.                                       *)

WNorm(w) ==
    LET c0 == w[3] \div MS_PER_DAY
        m1 == w[2] + c0
    IN  <<w[1] + (m1 \div MS_PER_DAY), m1 % MS_PER_DAY, w[3] % MS_PER_DAY>>

WInt(n) == WNorm(<<0, 0, n>>)

WSub(a, b) == WNorm(<<a[1] - b[1], a[2] - b[2], a[3] - b[3]>>)

WAddInt(a, n) == WNorm(<<a[1], a[2], a[3] + n>>)

\* a * MS_PER_DAY, for |a| < M*M
WMulDay(a) == <<a[1] * MS_PER_DAY + a[2], a[3], 0>>

\* Math.floor(a / MS_PER_DAY)
WFloorDivDay(a) == WNorm(<<IF a[1] < 0 THEN -1 ELSE 0, a[1], a[2]>>)

WLess(a, b) ==
    \/ a[1] < b[1]
    \/ a[1] = b[1] /\ a[2] < b[2]
    \/ a[1] = b[1] /\ a[2] = b[2] /\ a[3] < b[3]

WMax(a, b) == IF WLess(a, b) THEN b ELSE a

\* the literal 1e11 of convertToBitcoinDayIndex: 1157 * 86400000 + 35200000
TimestampThreshold == <<0, 1157, 35200000>>

\* a day index is NaN or a Wide integer
NaNIndex == [nan |-> TRUE, w |-> <<0, 0, 0>>]
Index(w) == [nan |-> FALSE, w |-> w]

\* Date.parse(`${date}T00:00:00Z`): milliseconds, or NaN
DateParse(date) ==
    IF WellFormed(date)
    THEN Index(WNorm(<<0, EpochDay(date), 0>>))
    ELSE NaNIndex

BITCOIN_GENESIS_DAY_MS == DateParse(GENESIS_DATE).w

-----------------------------------------------------------------------------
(* Day-index mappers *)

\* script.js: convertToBitcoinDayIndex(input) for a string input
convertToBitcoinDayIndex(input) ==
    LET value == DateParse(input)
    IN  IF value.nan THEN NaNIndex
        ELSE LET timestamp == IF WLess(TimestampThreshold, value.w)
                              THEN value.w
                              ELSE WMulDay(value.w)
             IN  Index(WMax(WAddInt(WFloorDivDay(WSub(timestamp, BITCOIN_GENESIS_DAY_MS)), 1),
                            WInt(1)))

\* update script: daySinceGenesis(date); Math.max(NaN, 1) is NaN
daySinceGenesis(date) ==
    LET t == DateParse(date)
        g == DateParse(GENESIS_DATE)
    IN  IF t.nan \/ g.nan THEN NaNIndex
        ELSE Index(WMax(WAddInt(WFloorDivDay(WSub(t.w, g.w)), 1), WInt(1)))

\* scripts/generate-price-db.mjs lines 146 and 149, 204 and 205: the day number
\* of fitLogLogQuantileRegression and predictPowerLaw, Math.max(dayNumber, 1)
generateDayNumber(date) ==
    LET t == DateParse(date)
    IN  IF t.nan THEN NaNIndex
        ELSE Index(WMax(WFloorDivDay(t.w), WInt(1)))

-----------------------------------------------------------------------------
(* JavaScript numbers: a decimal floating-point format with DIGITS          *)
(* significant digits and exponents in -MaxExp..MaxExp.  A finite number    *)
(* is [k |-> "fin", m |-> mantissa, e |-> exponent], of value m * 10^e,     *)
(* with m = 0 or 10^(DIGITS-1) <= |m| < 10^DIGITS.  Results are rounded to  *)
(* nearest, overflow to an infinity and underflow to 0.                     *)

DIGITS == 2 + 2
MANT == 10 ^ DIGITS
MANTLO == 10 ^ (DIGITS - 1)

NaN == [k |-> "nan", m |-> 0, e |-> 0]
PInf == [k |-> "inf", m |-> 1, e |-> 0]
NInf == [k |-> "inf", m |-> -1, e |-> 0]
Undefined == [k |-> "undef", m |-> 0, e |-> 0]
Null == [k |-> "null", m |-> 0, e |-> 0]
Zero == [k |-> "fin", m |-> 0, e |-> 0]

Abs(n) == IF n < 0 THEN -n ELSE n

\* the element of a one-element set: Only({F(v) : v \in {e}}) is F(e) with e
\* evaluated once and before F, as JavaScript evaluates a const it declares
Only(S) == CHOOSE x \in S : TRUE
Sgn(n) == IF n < 0 THEN -1 ELSE 1
Inf(s) == IF s < 0 THEN NInf ELSE PInf

\* the number of decimal digits of n, for 0 <= n < 2^31
NumDigits(n) ==
    IF n < 10 THEN 1 ELSE IF n < 100 THEN 2 ELSE IF n < 1000 THEN 3
    ELSE IF n < 10000 THEN 4 ELSE IF n < 100000 THEN 5 ELSE IF n < 1000000 THEN 6
    ELSE IF n < 10000000 THEN 7 ELSE IF n < 100000000 THEN 8
    ELSE IF n < 1000000000 THEN 9 ELSE 10

\* the number nearest to n * 10^e, for an integer n
FlPacked(n, q, x) ==
    IF x > MaxExp THEN Inf(n)
    ELSE IF x < -MaxExp THEN Zero
    ELSE [k |-> "fin", m |-> Sgn(n) * q, e |-> x]

\* q0 has DIGITS digits, or is MANT after a carry of the rounding
FlCarried(n, q0, x) ==
    IF q0 >= MANT THEN FlPacked(n, q0 \div 10, x + 1) ELSE FlPacked(n, q0, x)

\* d is the number of digits of |n|
FlRounded(n, e, d) ==
    IF d > DIGITS
    THEN FlCarried(n, (Abs(n) + 5 * 10 ^ (d - DIGITS - 1)) \div 10 ^ (d - DIGITS),
                   e + (d - DIGITS))
    ELSE FlPacked(n, Abs(n) * 10 ^ (DIGITS - d), e + (d - DIGITS))

Fl(n, e) == IF n = 0 THEN Zero ELSE FlRounded(n, e, NumDigits(Abs(n)))

\* an integer as a number
Num(n) == Fl(n, 0)

\* Number.isFinite: no coercion, so undefined and null are not finite
IsFinite(x) == x.k = "fin"

\* Number(x)
ToNumber(x) ==
    IF x.k = "undef" THEN NaN ELSE IF x.k = "null" THEN Zero ELSE x

Neg(x) == IF x.k \in {"fin", "inf"} THEN [x EXCEPT !.m = -x.m] ELSE NaN

\* x + y of two finite numbers: the smaller one is shifted into the other
AddFin(x, y) ==
    IF x.m = 0 THEN y
    ELSE IF y.m = 0 THEN x
    ELSE LET hi == IF x.e >= y.e THEN x ELSE y
             lo == IF x.e >= y.e THEN y ELSE x
             sh == hi.e - lo.e
         IN  IF sh > DIGITS + 1 THEN hi
             ELSE Fl(hi.m * 10 ^ sh + lo.m, lo.e)

\* x + y
Add(x, y) ==
    IF x.k \notin {"fin", "inf"} \/ y.k \notin {"fin", "inf"} THEN NaN
    ELSE IF x.k = "inf" /\ y.k = "inf" THEN (IF x.m = y.m THEN x ELSE NaN)
    ELSE IF x.k = "inf" THEN x
    ELSE IF y.k = "inf" THEN y
    ELSE AddFin(x, y)

\* x - y
Sub(x, y) == Add(x, Neg(y))

\* x * y
Mul(x, y) ==
    IF x.k \notin {"fin", "inf"} \/ y.k \notin {"fin", "inf"} THEN NaN
    ELSE IF x.k = "inf" \/ y.k = "inf"
         THEN (IF x.m = 0 \/ y.m = 0 THEN NaN ELSE Inf(Sgn(x.m) * Sgn(y.m)))
    ELSE Fl(x.m * y.m, x.e + y.e)

\* x / y
Div(x, y) ==
    IF x.k \notin {"fin", "inf"} \/ y.k \notin {"fin", "inf"} THEN NaN
    ELSE IF x.k = "inf" THEN (IF y.k = "inf" THEN NaN ELSE Inf(x.m * Sgn(y.m)))
    ELSE IF y.k = "inf" THEN Zero
    ELSE IF y.m = 0 THEN (IF x.m = 0 THEN NaN ELSE Inf(x.m))
    ELSE Fl(Sgn(x.m) * Sgn(y.m) * ((Abs(x.m) * 10 * MANT) \div Abs(y.m)),
            x.e - y.e - DIGITS - 1)

\* x < y on finite numbers
LessFin(x, y) ==
    IF x.m < 0 /\ y.m >= 0 THEN TRUE
    ELSE IF x.m >= 0 /\ y.m <= 0 THEN FALSE
    ELSE IF x.m = 0 THEN TRUE
    ELSE IF x.m > 0
         THEN x.e < y.e \/ (x.e = y.e /\ x.m < y.m)
         ELSE x.e > y.e \/ (x.e = y.e /\ x.m < y.m)

\* x < y (false when either is NaN)
Less(x, y) ==
    /\ x.k \in {"fin", "inf"}
    /\ y.k \in {"fin", "inf"}
    /\ IF x.k = "inf" THEN x.m < 0 /\ y # x
       ELSE IF y.k = "inf" THEN y.m > 0
       ELSE LessFin(x, y)

\* x > y, x >= y, x <= y, x === y on numbers
Greater(x, y) == Less(y, x)
GreaterEq(x, y) == x.k \in {"fin", "inf"} /\ y.k \in {"fin", "inf"} /\ ~Less(x, y)
LessEq(x, y) == GreaterEq(y, x)
NumEq(x, y) == x.k \in {"fin", "inf"} /\ x = y

\* Math.max(x, y), Math.min(x, y)
MathMax(x, y) ==
    IF x.k \notin {"fin", "inf"} \/ y.k \notin {"fin", "inf"} THEN NaN
    ELSE IF Less(x, y) THEN y ELSE x
MathMin(x, y) ==
    IF x.k \notin {"fin", "inf"} \/ y.k \notin {"fin", "inf"} THEN NaN
    ELSE IF Less(y, x) THEN y ELSE x

RECURSIVE ISqrtIn(_, _, _)
ISqrtIn(n, lo, hi) ==
    IF lo >= hi THEN lo
    ELSE LET mid == (lo + hi + 1) \div 2
         IN  IF mid * mid <= n THEN ISqrtIn(n, mid, hi) ELSE ISqrtIn(n, lo, mid - 1)

\* Math.sqrt(x)
Sqrt(x) ==
    IF x.k \notin {"fin", "inf"} THEN NaN
    ELSE IF x.k = "inf" THEN (IF x.m > 0 THEN PInf ELSE NaN)
    ELSE IF x.m < 0 THEN NaN
    ELSE LET odd == x.e % 2 = 1
             n   == x.m * MANT * (IF odd THEN 10 ELSE 1)
             e2  == ((IF odd THEN x.e - 1 ELSE x.e) - DIGITS) \div 2
         IN  Fl(ISqrtIn(n, 0, 46340), e2)

\* fixed point with FIX units per 1 for the logarithm and the exponential
FIX == 10 ^ 5
LN2 == 69315
LN10 == 230259

\* a * b / FIX for 0 <= a, b < 10 * FIX
MulFix(a, b) == (a * (b \div 1000)) \div 100 + (a * (b % 1000)) \div FIX

RECURSIVE Pow2Below(_, _)
\* the largest p = MANTLO * 2^j with p <= n
Pow2Below(n, p) == IF 2 * p <= n THEN Pow2Below(n, 2 * p) ELSE p

RECURSIVE Log2Of(_)
Log2Of(q) == IF q <= 1 THEN 0 ELSE 1 + Log2Of(q \div 2)

RECURSIVE AtanhSeries(_, _, _)
\* t^k / k + t^(k+2) / (k+2) + ... + t^9 / 9 in fixed point, with pw = t^k
\* and t2 = t^2
AtanhSeries(pw, t2, k) ==
    IF k > 9 THEN 0 ELSE (pw \div k) + AtanhSeries(MulFix(pw, t2), t2, k + 2)

\* ln(m / MANTLO) in fixed point for MANTLO <= m < MANT: m / MANTLO = u * 2^j
\* with 1 <= u < 2, and ln u = 2 atanh((u - 1) / (u + 1))
LnMant(m) ==
    LET Atanh(t) == AtanhSeries(t, MulFix(t, t), 1)
        \* p = MANTLO * 2^j
        Split(p) == Log2Of(p \div MANTLO) * LN2 + 2 * Atanh(((m - p) * FIX) \div (m + p))
    IN  Split(Pow2Below(m, MANTLO))

\* Math.log(x)
Ln(x) ==
    IF x.k \notin {"fin", "inf"} THEN NaN
    ELSE IF x.k = "inf" THEN (IF x.m > 0 THEN PInf ELSE NaN)
    ELSE IF x.m < 0 THEN NaN
    ELSE IF x.m = 0 THEN NInf
    ELSE Fl(LnMant(x.m) + (x.e + DIGITS - 1) * LN10, -5)

RECURSIVE ExpSeries(_, _, _, _)
\* s^k / k! + ... + s^7 / 7! in fixed point, with pw = s^k and fact = k!
ExpSeries(pw, s, k, fact) ==
    IF k > 7 THEN 0
    ELSE (pw \div fact) + ExpSeries(MulFix(pw, s), s, k + 1, fact * (k + 1))

\* e^(s / FIX) in fixed point for 0 <= s < LN2, by its Taylor series
ExpFix(s) == FIX + ExpSeries(s, s, 1, 1)

\* Math.exp(x): x = j ln 10 + q ln 2 + s
Exp(x) ==
    IF x.k \notin {"fin", "inf"} THEN NaN
    ELSE IF x.k = "inf" THEN (IF x.m > 0 THEN PInf ELSE Zero)
    ELSE IF x.e > -1 THEN (IF x.m > 0 THEN PInf ELSE IF x.m < 0 THEN Zero ELSE Num(1))
    ELSE LET \* xf is x in fixed point
             Reduced(xf) ==
                 Fl(ExpFix((xf % LN10) % LN2) * 2 ^ ((xf % LN10) \div LN2), (xf \div LN10) - 5)
         IN  Reduced(IF x.e >= -5 THEN x.m * 10 ^ (x.e + 5)
                     ELSE IF x.e < -5 - DIGITS THEN 0
                     ELSE Sgn(x.m) * (Abs(x.m) \div 10 ^ (-5 - x.e)))

RECURSIVE PowInt(_, _)
\* x multiplied n times
PowInt(x, n) == IF n = 0 THEN Num(1) ELSE Mul(PowInt(x, n - 1), x)

\* the integer a finite number is, when it is one in 0..MaxIntPow (else -1)
SmallInt(y) ==
    IF y.m = 0 THEN 0
    ELSE IF y.e >= 0 THEN -1
    ELSE IF y.e < 1 - DIGITS THEN -1
    ELSE IF Abs(y.m) % 10 ^ (-y.e) # 0 THEN -1
    ELSE IF Abs(y.m) \div 10 ^ (-y.e) > MaxIntPow THEN -1
    ELSE Abs(y.m) \div 10 ^ (-y.e)

\* Math.pow(x, y) and x ** y
Pow(x, y) ==
    IF y.k = "fin" /\ y.m = 0 THEN Num(1)
    ELSE IF x.k \notin {"fin", "inf"} \/ y.k \notin {"fin", "inf"} THEN NaN
    ELSE IF y.k = "inf"
         THEN (IF x.k = "inf" THEN (IF y.m > 0 THEN PInf ELSE Zero)
               ELSE IF Abs(x.m) = MANTLO /\ x.e = 1 - DIGITS THEN NaN
               ELSE IF Less(Num(1), [x EXCEPT !.m = Abs(x.m)]) = (y.m > 0)
                    THEN PInf ELSE Zero)
    ELSE IF x.k = "inf"
         THEN (IF y.m < 0 THEN Zero
               ELSE IF x.m < 0 /\ SmallInt(y) # -1 /\ SmallInt(y) % 2 = 1 THEN NInf
               ELSE PInf)
    ELSE IF SmallInt(y) # -1
         THEN (IF y.m > 0 THEN PowInt(x, SmallInt(y))
               ELSE Div(Num(1), PowInt(x, SmallInt(y))))
    ELSE IF x.m < 0 THEN NaN
    ELSE IF x.m = 0 THEN (IF y.m > 0 THEN Zero ELSE PInf)
    ELSE Exp(Mul(y, Ln(x)))

\* a day index as a number
IndexToNum(i) ==
    IF i.nan THEN NaN
    ELSE IF i.w[1] = 0 /\ i.w[2] = 0 THEN Num(i.w[3])
    ELSE Add(Add(Mul(Mul(Num(i.w[1]), Num(MS_PER_DAY)), Num(MS_PER_DAY)),
                 Mul(Num(i.w[2]), Num(MS_PER_DAY))),
             Num(i.w[3]))

-----------------------------------------------------------------------------
(* The parts of the state a specification does not use stay at rest.        *)

DayIdle == cal = GENESIS_DATE /\ wholeDays = 0 /\ walkDir = "none"

AvgIdle == values = <<>> /\ windowSize = 0 /\ apc = "idle" /\ averages = <<>>

\* what calculatePowerLaw shows: the three band values and the percentile are
\* null where the page shows '-'
NoKpi == [state |-> "none", date |-> BadDate, percent |-> Null,
          q01 |-> Null, q50 |-> Null, q99 |-> Null, cheaper |-> Null]

AttachIdle ==
    /\ rows = <<>> /\ attached = <<>> /\ atpc = "idle" /\ kpiCurrency = "none" /\ kpi = NoKpi

NoTable == [status |-> "none", header |-> <<>>, lines |-> <<>>]

ReadIdle ==
    /\ reader = "none" /\ table = NoTable /\ tableAlt = NoTable /\ rdpc = "idle"
    /\ validRows = <<>> /\ readRows = <<>> /\ readRowsAlt = <<>>

NoPanel == [eur |-> "-", usd |-> "-", chf |-> "-", change |-> "-"]

PriceIdle ==
    /\ priceFile = NoTable /\ bpc = "off" /\ apiOutcome = "none" /\ fileOutcome = "none"
    /\ panel = NoPanel /\ reported = "none"

\* 'max' and the numbers of days
DaysMax == [max |-> TRUE, n |-> 0]
Days(n) == [max |-> FALSE, n |-> n]

NoChart == [by |-> 0, source |-> "none", days |-> Days(0), series |-> <<>>]

ChartIdle ==
    /\ chartFile = NoTable /\ appc = "off" /\ localPriceRows = <<>>
    /\ currentChartDays = Days(0) /\ currentChartCurrency = "none" /\ chartRequestId = 0
    /\ requests = <<>> /\ chart = NoChart /\ chartReport = "none"

DbIdle ==
    /\ script = "none" /\ db = NoTable /\ upc = "off" /\ existing = <<>> /\ lastDate = BadDate

\* a parameter record: an object with its fields (undefined when missing),
\* or null, or undefined
Params(a, b, c, d) == [k |-> "obj", a |-> a, b |-> b, c |-> c, d |-> d]
NoObject(k) == [k |-> k, a |-> Undefined, b |-> Undefined, c |-> Undefined, d |-> Undefined]

\* the empty string ''
EmptyString == MkDate(0, 0, -1)

NoProjectionParams == [powerLawQ01 |-> NoObject("null"), powerLawQ50 |-> NoObject("null"),
             powerLawQ99 |-> NoObject("null")]

NoSeries == [array |-> "none", points |-> <<>>]

ProjIdle ==
    /\ projectionDate = EmptyString /\ projectionParams = NoProjectionParams /\ priceSeries = <<>>
    /\ jpc = "off" /\ projected = NoSeries

\* script.js lines 24-29: no indicator is shown at first
InitialVisibility ==
    [sma50d |-> FALSE, sma200d |-> FALSE, sma200w |-> FALSE, powerlaw |-> FALSE]

\* script.js line 16: let btcChart = null
NoBtcChart == [exists |-> FALSE, hidden |-> <<>>, formulas |-> <<>>]

ToggleIdle ==
    /\ maVisibility = InitialVisibility /\ btcChart = NoBtcChart /\ fittedSeries = {}

UiIdle == ProjIdle /\ ToggleIdle

LateIdle == ReadIdle /\ PriceIdle /\ ChartIdle /\ DbIdle /\ UiIdle

OthersIdle == AvgIdle /\ AttachIdle /\ LateIdle

-----------------------------------------------------------------------------
(* Predictors *)

\* params || {}
OrEmpty(params) == IF params.k = "obj" THEN params ELSE NoObject("obj")

\* a faulty variant: only a and b are checked (C3 tells it from the code)
predictPowerLawHalfChecked(date, params) ==
    LET dayNumber == IndexToNum(convertToBitcoinDayIndex(date))
        p == OrEmpty(params)
        Predicted(base) == Add(Mul(p.a, Pow(base, p.b)), Mul(p.c, Pow(base, p.d)))
    IN  IF ~(IsFinite(p.a) /\ IsFinite(p.b)) THEN Null
        ELSE Predicted(MathMax(dayNumber, Fl(1, -9)))

\* script.js: predictPowerLaw(date, params)
predictPowerLaw(date, params) ==
    LET dayNumber == IndexToNum(convertToBitcoinDayIndex(date))
        p == OrEmpty(params)
        Predicted(base) == Add(Mul(p.a, Pow(base, p.b)), Mul(p.c, Pow(base, p.d)))
    IN  IF ~(IsFinite(p.a) /\ IsFinite(p.b) /\ IsFinite(p.c) /\ IsFinite(p.d)) THEN Null
        ELSE Predicted(MathMax(dayNumber, Fl(1, -9)))

\* script.js: predictSingleTermPowerLaw(date, params)
predictSingleTermPowerLaw(date, params) ==
    LET dayNumber == IndexToNum(convertToBitcoinDayIndex(date))
    IN  IF ~IsFinite(dayNumber) \/ params.k # "obj" THEN Null
        ELSE IF ~(IsFinite(params.a) /\ IsFinite(params.b)) THEN Null
        ELSE Mul(params.a, Pow(MathMax(dayNumber, Fl(1, -9)), params.b))

\* update script: predictPowerLaw(date, alpha, beta)
scriptPredictPowerLaw(date, alpha, beta) ==
    LET dayNumber == IndexToNum(daySinceGenesis(date))
    IN  Exp(Add(alpha, Mul(beta, Ln(MathMax(dayNumber, Num(1))))))

\* the text of a cell
Cell(kind, value) == [kind |-> kind, value |-> value]
NoCell == Cell("none", Zero)

\* x.toFixed(2): the text of x rounded to two decimals (halves away from 0);
\* the names of the non-finite numbers; exponent notation from 1e21 on; a
\* TypeError when x is null or undefined
ToFixed2(x) ==
    IF x.k \in {"null", "undef"} THEN Cell("TypeError", Zero)
    ELSE IF x.k = "nan" THEN Cell("NaN", Zero)
    ELSE IF x.k = "inf" THEN Cell(IF x.m > 0 THEN "Infinity" ELSE "-Infinity", Zero)
    ELSE IF x.m # 0 /\ x.e + DIGITS - 1 >= 21 THEN Cell("exponential", x)
    ELSE IF x.e >= -2 THEN Cell("decimal", x)
    ELSE LET shift == -2 - x.e
         IN  IF shift > DIGITS THEN Cell("decimal", Zero)
             ELSE Cell("decimal",
                       Fl(Sgn(x.m) * ((Abs(x.m) + 5 * 10 ^ (shift - 1)) \div 10 ^ shift), -2))

NoArgs == [date |-> BadDate, params |-> NoObject("undef"), alpha |-> Undefined,
           beta |-> Undefined]

PredIdle ==
    /\ pfn = "none" /\ pargs = NoArgs /\ ppc = "idle" /\ pout = Undefined /\ pcell = NoCell

-----------------------------------------------------------------------------
(* Arrays *)

\* array[index] for a 1-based index; undefined outside the array
At(seq, i) == IF i \in 1..Len(seq) THEN seq[i] ELSE Undefined

RECURSIVE SumSeq(_)
\* array.reduce((sum, x) => sum + x, 0)
SumSeq(seq) ==
    IF Len(seq) = 0 THEN Zero
    ELSE Add(SumSeq(SubSeq(seq, 1, Len(seq) - 1)), seq[Len(seq)])

RECURSIVE MinOf(_)
\* Math.min(...array)
MinOf(seq) ==
    IF Len(seq) = 0 THEN PInf ELSE MathMin(MinOf(SubSeq(seq, 1, Len(seq) - 1)), seq[Len(seq)])

RECURSIVE MaxOf(_)
\* Math.max(...array)
MaxOf(seq) ==
    IF Len(seq) = 0 THEN NInf ELSE MathMax(MaxOf(SubSeq(seq, 1, Len(seq) - 1)), seq[Len(seq)])

-----------------------------------------------------------------------------
(* script.js: fitPowerLawQuantileRegression(dates, prices, tau, options)   *)

\* the defaults of options.learningRate and options.epsilon
LearningRate == Fl(2, -2)
Epsilon == Fl(1, -9)
Beta1 == Fl(9, -1)
Beta2 == Fl(999, -3)

\* the result for fewer than 4 usable samples
PLSentinel == [a |-> NaN, b |-> NaN, c |-> NaN, d |-> NaN]

\* a faulty variant: rawSamples without the filter (C1 tells it from the code)
PLSamplesUnfiltered(ds, ps) ==
    [i \in 1..Len(ds) |->
        [day |-> IndexToNum(convertToBitcoinDayIndex(ds[i])),
         value |-> ToNumber(At(ps, i))]]

\* rawSamples, then the filter on finite day and value
PLSamples(ds, ps) ==
    LET rawSamples == [i \in 1..Len(ds) |->
                          [day |-> IndexToNum(convertToBitcoinDayIndex(ds[i])),
                           value |-> ToNumber(At(ps, i))]]
        Usable(sample) == IsFinite(sample.day) /\ IsFinite(sample.value)
    IN  SelectSeq(rawSamples, Usable)

\* the parameters before the first iteration
\* lines 904-907: the two terms share the scale and straddle the exponent
PLTerms(scale, dominantExponent) ==
    [a |-> MathMax(Mul(scale, Fl(35, -2)), Epsilon),
     b |-> MathMax(Mul(dominantExponent, Fl(65, -2)), Fl(5, -2)),
     c |-> MathMax(Mul(scale, Fl(65, -2)), Epsilon),
     d |-> MathMin(MathMax(Mul(dominantExponent, Fl(135, -2)), Fl(5, -2)), Num(12))]

\* lines 904 and 906: the scale the two terms share
PLSloped(logXMean, logYMean, dominantExponent) ==
    PLTerms(Exp(Sub(logYMean, Mul(dominantExponent, logXMean))), dominantExponent)

\* lines 898-903
PLCentred(n, logX, logY, logXMean, logYMean) ==
    Only({PLSloped(logXMean, logYMean,
                   IF NumEq(logVariance, Zero) THEN Num(1)
                   ELSE MathMax(Div(logCovariance, logVariance), Fl(5, -2))) :
             logCovariance \in {SumSeq([i \in 1..n |->
                                          Mul(Sub(logX[i], logXMean), Sub(logY[i], logYMean))])},
             logVariance \in {SumSeq([i \in 1..n |-> Pow(Sub(logX[i], logXMean), Num(2))])}})

\* lines 896-897
PLAveraged(n, logX, logY) ==
    Only({PLCentred(n, logX, logY, logXMean, logYMean) :
             logXMean \in {Div(SumSeq(logX), Num(n))},
             logYMean \in {Div(SumSeq(logY), Num(n))}})

PLInitial(samples) ==
    \* lines 895-897: the logarithms of the days and of the prices
    Only({PLAveraged(Len(samples), logX, logY) :
             logX \in {[i \in 1..Len(samples) |-> Ln(MathMax(samples[i].day, Epsilon))]},
             logY \in {[i \in 1..Len(samples) |-> Ln(MathMax(samples[i].value, Epsilon))]}})

PLZeroMoments ==
    [mA |-> Zero, mB |-> Zero, mC |-> Zero, mD |-> Zero,
     vA |-> Zero, vB |-> Zero, vC |-> Zero, vD |-> Zero]

\* a faulty variant: a residual of exactly 0 counts as negative (C23 tells it
\* from the code)
PsiStrict(residual, t) == IF Greater(residual, Zero) THEN t ELSE Sub(t, Num(1))

\* line 932, part_001 line 127: the pinball subgradient of one residual
Psi(residual, t) == IF GreaterEq(residual, Zero) THEN t ELSE Sub(t, Num(1))

\* lines 936-939
PLGradient(p, firstComponent, secondComponent, logDay, dLossDPrediction) ==
    [gradA |-> Mul(dLossDPrediction, firstComponent),
     gradB |-> Mul(Mul(Mul(dLossDPrediction, p.a), firstComponent), logDay),
     gradC |-> Mul(dLossDPrediction, secondComponent),
     gradD |-> Mul(Mul(Mul(dLossDPrediction, p.c), secondComponent), logDay)]

\* lines 929-934: the prediction, the residual and the derivative of the loss
PLLoss(sample, p, t, firstComponent, secondComponent, logDay) ==
    PLGradient(p, firstComponent, secondComponent, logDay,
               Neg(Psi(Sub(sample.value,
                           Add(Mul(p.a, firstComponent), Mul(p.c, secondComponent))),
                       t)))

\* lines 927-928, 935
PLComponents(sample, p, t, dayBase) ==
    Only({PLLoss(sample, p, t, firstComponent, secondComponent, logDay) :
             firstComponent \in {Pow(dayBase, p.b)},
             secondComponent \in {Pow(dayBase, p.d)},
             logDay \in {Ln(dayBase)}})

\* what one sample adds to the four gradient sums
PLSampleGradient(sample, p, t) == PLComponents(sample, p, t, MathMax(sample.day, Epsilon))

PLAdded(acc, g) ==
    [gradA |-> Add(acc.gradA, g.gradA), gradB |-> Add(acc.gradB, g.gradB),
     gradC |-> Add(acc.gradC, g.gradC), gradD |-> Add(acc.gradD, g.gradD)]

RECURSIVE PLGradientSums(_, _)
\* the gradient sums over the first n samples, from what each sample adds
PLGradientSums(gs, n) ==
    IF n = 0 THEN [gradA |-> Zero, gradB |-> Zero, gradC |-> Zero, gradD |-> Zero]
    ELSE PLAdded(PLGradientSums(gs, n - 1), gs[n])

\* lines 941-945
PLMean(sums, n) ==
    [gradA |-> Div(sums.gradA, Num(n)), gradB |-> Div(sums.gradB, Num(n)),
     gradC |-> Div(sums.gradC, Num(n)), gradD |-> Div(sums.gradD, Num(n))]

\* the four mean gradients of one iteration
PLGradients(samples, p, t) ==
    Only({PLMean(PLGradientSums(gs, Len(gs)), Len(gs)) :
             gs \in {SubSeq([i \in 1..Len(samples) |-> PLSampleGradient(samples[i], p, t)],
                            1, Len(samples))}})

\* first and second moment after one more gradient
MomentM(m, grad) == Add(Mul(Beta1, m), Mul(Sub(Num(1), Beta1), grad))
MomentV(v, grad) == Add(Mul(Beta2, v), Mul(Mul(Sub(Num(1), Beta2), grad), grad))

\* the step of one parameter, from its moments at iteration s
AdamStep(m, v, s) ==
    LET mHat == Div(m, Sub(Num(1), Pow(Beta1, Num(s))))
        vHat == Div(v, Sub(Num(1), Pow(Beta2, Num(s))))
    IN  Mul(LearningRate, Div(mHat, Add(Sqrt(vHat), Epsilon)))

PLMoments(mo, g) ==
    [mA |-> MomentM(mo.mA, g.gradA), mB |-> MomentM(mo.mB, g.gradB),
     mC |-> MomentM(mo.mC, g.gradC), mD |-> MomentM(mo.mD, g.gradD),
     vA |-> MomentV(mo.vA, g.gradA), vB |-> MomentV(mo.vB, g.gradB),
     vC |-> MomentV(mo.vC, g.gradC), vD |-> MomentV(mo.vD, g.gradD)]

\* the parameters after the update of iteration s, before the guards
PLUpdate(p, mo, s) ==
    [a |-> Sub(p.a, AdamStep(mo.mA, mo.vA, s)),
     b |-> Sub(p.b, AdamStep(mo.mB, mo.vB, s)),
     c |-> Sub(p.c, AdamStep(mo.mC, mo.vC, s)),
     d |-> Sub(p.d, AdamStep(mo.mD, mo.vD, s))]

\* a faulty variant: no replacement of a non-finite parameter (C21 tells it
\* from the code)
PLNoFallback(p, minPrice) == p

\* lines 972-975: a non-finite parameter is replaced by its fallback
PLFallback(p, minPrice) ==
    [a |-> IF ~IsFinite(p.a) THEN Mul(minPrice, Fl(1, -1)) ELSE p.a,
     b |-> IF ~IsFinite(p.b) THEN Num(1) ELSE p.b,
     c |-> IF ~IsFinite(p.c) THEN Mul(minPrice, Fl(1, -1)) ELSE p.c,
     d |-> IF ~IsFinite(p.d) THEN Num(2) ELSE p.d]

\* the hard clamp at the end of an iteration
PLClamp(p, maxPrice) ==
    [a |-> MathMin(MathMax(p.a, Epsilon), Mul(maxPrice, Num(10))),
     b |-> MathMin(MathMax(p.b, Fl(1, -2)), Num(12)),
     c |-> MathMin(MathMax(p.c, Epsilon), Mul(maxPrice, Num(10))),
     d |-> MathMin(MathMax(p.d, Fl(1, -2)), Num(12))]

\* a faulty variant: no swap (C7 tells it from the code)
PLCanonicalNoSwap(p) == p

\* the swap that puts the slower-growing term first
PLCanonical(p) ==
    IF Greater(p.b, p.d) THEN [a |-> p.c, b |-> p.d, c |-> p.a, d |-> p.b] ELSE p

-----------------------------------------------------------------------------
(* update script: fitLogLogQuantileRegression(dates, prices, tau, options)  *)

\* POWERLAW_SEEDS[tau]; a tau that is no key gives undefined
POWERLAW_SEEDS(t) ==
    IF t = Fl(1, -2) THEN [k |-> "obj", alpha10 |-> Fl(-172, -1), beta |-> Fl(5775, -3)]
    ELSE IF t = Fl(5, -1) THEN [k |-> "obj", alpha10 |-> Fl(-1578, -2), beta |-> Fl(547, -2)]
    ELSE IF t = Fl(99, -2) THEN [k |-> "obj", alpha10 |-> Fl(-13905, -3), beta |-> Fl(5165, -3)]
    ELSE [k |-> "undef", alpha10 |-> Undefined, beta |-> Undefined]

\* dates.map(...): every pair becomes a sample, whatever its day and price
LLSamples(ds, ps) ==
    [i \in 1..Len(ds) |->
        [logX |-> Ln(MathMax(IndexToNum(daySinceGenesis(ds[i])), Num(1))),
         logY |-> Ln(MathMax(At(ps, i), Epsilon))]]

\* the least-squares line through the samples, or the seed of the quantile
LLInitial(samples, t) ==
    LET n == Len(samples)
        seed == POWERLAW_SEEDS(t)
        \* lines 106-111
        Line(meanX, meanY, beta) ==
            IF seed.k = "obj"
            THEN [alpha |-> Mul(seed.alpha10, Ln(Num(10))), beta |-> seed.beta]
            ELSE [alpha |-> Sub(meanY, Mul(beta, meanX)), beta |-> beta]
        \* line 105
        Sloped(meanX, meanY, covariance, varianceX) ==
            Line(meanX, meanY,
                 IF NumEq(varianceX, Zero) THEN Zero ELSE Div(covariance, varianceX))
        \* lines 101-102
        Centred(meanX, meanY) ==
            Sloped(meanX, meanY,
                   SumSeq([i \in 1..n |->
                              Mul(Sub(samples[i].logX, meanX), Sub(samples[i].logY, meanY))]),
                   SumSeq([i \in 1..n |-> Pow(Sub(samples[i].logX, meanX), Num(2))]))
    IN  \* lines 99-100
        Centred(Div(SumSeq([i \in 1..n |-> samples[i].logX]), Num(n)),
                Div(SumSeq([i \in 1..n |-> samples[i].logY]), Num(n)))

LLZeroMoments == [mAlpha |-> Zero, mBeta |-> Zero, vAlpha |-> Zero, vBeta |-> Zero]

RECURSIVE LLGradientSums(_, _, _, _)
\* gradAlpha and gradBeta after the first n samples
LLGradientSums(samples, p, t, n) ==
    IF n = 0 THEN [gradAlpha |-> Zero, gradBeta |-> Zero]
    ELSE LET prediction == Add(p.alpha, Mul(p.beta, samples[n].logX))
             residual == Sub(samples[n].logY, prediction)
             Added(acc, psi) ==
                 [gradAlpha |-> Sub(acc.gradAlpha, psi),
                  gradBeta |-> Sub(acc.gradBeta, Mul(psi, samples[n].logX))]
         IN  Added(LLGradientSums(samples, p, t, n - 1), Psi(residual, t))

LLGradients(samples, p, t) ==
    LET n == Len(samples)
        Mean(sums) ==
            [gradAlpha |-> Div(sums.gradAlpha, Num(n)),
             gradBeta |-> Div(sums.gradBeta, Num(n))]
    IN  Mean(LLGradientSums(samples, p, t, n))

LLMoments(mo, g) ==
    [mAlpha |-> MomentM(mo.mAlpha, g.gradAlpha), mBeta |-> MomentM(mo.mBeta, g.gradBeta),
     vAlpha |-> MomentV(mo.vAlpha, g.gradAlpha), vBeta |-> MomentV(mo.vBeta, g.gradBeta)]

LLUpdate(p, mo, s) ==
    [alpha |-> Sub(p.alpha, AdamStep(mo.mAlpha, mo.vAlpha, s)),
     beta |-> Sub(p.beta, AdamStep(mo.mBeta, mo.vBeta, s))]

\* residuals of the samples against the fitted line
LLResiduals(samples, p) ==
    [i \in 1..Len(samples) |->
        Sub(samples[i].logY, Add(p.alpha, Mul(p.beta, samples[i].logX)))]

\* the comparator (a, b) => a - b as the sort reads it: a NaN counts as 0
CompareLess(x, y) == Less(Sub(x, y), Zero)

RECURSIVE RunLength(_, _, _)
\* the sort's first step: the length of the run that starts the array
RunLength(arr, idx, descending) ==
    IF idx > Len(arr) THEN idx - 1
    ELSE IF descending = CompareLess(arr[idx], arr[idx - 1])
         THEN RunLength(arr, idx + 1, descending)
         ELSE idx - 1

Reverse(arr) == [i \in 1..Len(arr) |-> arr[Len(arr) + 1 - i]]

RECURSIVE InsertAt(_, _, _, _)
\* binary search of the place of pivot in arr[left..right-1]
InsertAt(arr, pivot, left, right) ==
    IF left >= right THEN left
    ELSE LET mid == left + ((right - left) \div 2)
         IN  IF CompareLess(pivot, arr[mid]) THEN InsertAt(arr, pivot, left, mid)
             ELSE InsertAt(arr, pivot, mid + 1, right)

RECURSIVE InsertionSort(_, _)
\* binary insertion of arr[start..] into the sorted arr[1..start-1]
InsertionSort(arr, start) ==
    IF start > Len(arr) THEN arr
    ELSE LET \* arr[start] moved to position at, those in between one up
             Moved(at) ==
                 SubSeq(arr, 1, at - 1) \o <<arr[start]>> \o SubSeq(arr, at, start - 1)
                     \o SubSeq(arr, start + 1, Len(arr))
         IN  InsertionSort(Moved(InsertAt(arr, arr[start], 1, start)), start + 1)

\* [...residuals].sort((a, b) => a - b) for an array shorter than a merge run
SortNumbers(arr) ==
    IF Len(arr) < 2 THEN arr
    ELSE LET \* the first run, of length len, made ascending
             Made(descending, len) ==
                 InsertionSort(IF descending
                               THEN Reverse(SubSeq(arr, 1, len)) \o SubSeq(arr, len + 1, Len(arr))
                               ELSE arr,
                               len + 1)
             Run(descending) == Made(descending, RunLength(arr, 3, descending))
         IN  Run(CompareLess(arr[2], arr[1]))

\* Math.ceil(x) of a finite number, as an integer
CeilInt(x) ==
    IF x.e >= 0 THEN x.m * 10 ^ x.e
    ELSE IF -x.e > DIGITS + 1 THEN (IF x.m > 0 THEN 1 ELSE 0)
    ELSE (x.m \div 10 ^ (-x.e)) + (IF x.m % 10 ^ (-x.e) > 0 THEN 1 ELSE 0)

Min2(x, y) == IF x < y THEN x ELSE y
Max2(x, y) == IF x > y THEN x ELSE y

\* a faulty variant: the quantile index is applied to the residuals in the
\* order of the samples (C24 tells it from the code)
LLResultUnsorted(samples, p, t) ==
    LET count == Len(samples)
        quantileIndex == Min2(Max2(CeilInt(Mul(t, Num(count))) - 1, 0), count - 1)
    IN  [alpha |-> Add(p.alpha, At(LLResiduals(samples, p), quantileIndex + 1)),
         beta |-> p.beta]

\* lines 150-156: the shift of alpha to the empirical quantile of the residuals
LLResult(samples, p, t) ==
    LET Shifted(sortedResiduals) ==
            LET count == Len(sortedResiduals)
                quantileIndex == Min2(Max2(CeilInt(Mul(t, Num(count))) - 1, 0), count - 1)
                interceptShift == At(sortedResiduals, quantileIndex + 1)
            IN  [alpha |-> Add(p.alpha, interceptShift), beta |-> p.beta]
    IN  Shifted(SortNumbers(LLResiduals(samples, p)))

-----------------------------------------------------------------------------
(* The fitter calls.  Init gives the arguments; the call enters, iterates   *)
(* and returns; a second call on the same arguments follows the first.      *)

\* the date and the price of the i-th entry of an input series
\* the "huge" series: one price near the largest finite number on days of 2010
SeriesDate(series, i) ==
    IF series = "flat" THEN GENESIS_DATE
    ELSE IF series = "huge" THEN MkDate(2010, 1, i)
    ELSE MkDate(2009, 1, 2 + i)
SeriesPrice(series, i) ==
    IF series = "flat" THEN Num(2)
    ELSE IF series = "huge" THEN Fl(9, MaxExp + 3)
    ELSE IF series = "rising" THEN Fl(5 * i * i, -1)
    ELSE IF series = "steep" THEN PowInt(Num(i), 20)
    ELSE IF series = "falling" THEN Fl(300 \div i, -1)
    ELSE Fl(-5 * i, -1)

Series == {"flat", "rising", "steep", "falling", "negative", "huge"}
Oddities == {"nanPrice", "badDate"}

\* the inputs: n entries of a series, at most one of them (odd) not a sample
Shapes ==
    {[n |-> n, odd |-> 0, kind |-> "ok"] : n \in 0..MaxLen}
        \cup {sh \in [n : 1..MaxLen, odd : 1..MaxLen, kind : Oddities] : sh.odd <= sh.n}

InputDates(series, sh) ==
    [i \in 1..sh.n |->
        IF i = sh.odd /\ sh.kind = "badDate" THEN BadDate ELSE SeriesDate(series, i)]
InputPrices(series, sh) ==
    [i \in 1..sh.n |->
        IF i = sh.odd /\ sh.kind = "nanPrice" THEN NaN ELSE SeriesPrice(series, i)]

Taus == {Fl(5, -1), Fl(25, -2)}

Fitters == {"fitPowerLawQuantileRegression", "fitLogLogQuantileRegression"}

NoParams == [a |-> Zero, b |-> Zero, c |-> Zero, d |-> Zero]
NoCtx == [samples |-> <<>>, minPrice |-> Zero, maxPrice |-> Zero]
NoFirst == [result |-> PLSentinel, trace |-> <<>>]

FitInit ==
    /\ fn \in Fitters
    /\ \E series \in Series, sh \in Shapes :
          /\ dates = InputDates(series, sh)
          /\ prices = InputPrices(series, sh)
    /\ tau \in Taus
    /\ iterations \in 0..MaxIter
    /\ pc = "called"
    /\ step = 0
    /\ par = NoParams
    /\ mom = PLZeroMoments
    /\ ctx = NoCtx
    /\ result = PLSentinel
    /\ run = "first"
    /\ first = NoFirst
    /\ trace = <<>>
    /\ DayIdle
    /\ PredIdle
    /\ OthersIdle

\* a faulty variant: the moments are not reset on entry, as if they were kept
\* outside the function (C9 tells it from the code)
PLEnterKeepMoments ==
    /\ fn = "fitPowerLawQuantileRegression"
    /\ pc = "called"
    /\ LET Entered(samples, priceValues) ==
               IF Len(samples) < 4
               THEN /\ result' = PLSentinel
                    /\ pc' = "done"
                    /\ UNCHANGED <<par, ctx>>
               ELSE /\ ctx' = [samples |-> samples,
                               minPrice |-> MinOf(priceValues),
                               maxPrice |-> MaxOf(priceValues)]
                    /\ par' = PLInitial(samples)
                    /\ pc' = "loop"
                    /\ UNCHANGED result
           Sampled(samples) ==
               Entered(samples, [i \in 1..Len(samples) |-> samples[i].value])
       IN  Sampled(PLSamples(dates, prices))
    /\ step' = 0
    /\ trace' = <<>>
    /\ UNCHANGED <<fitArgs, mom, run, first, notFit>>

\* script.js lines 878-918: the samples, the guard on their number, the
\* initial parameters and moments
PLEnter ==
    /\ fn = "fitPowerLawQuantileRegression"
    /\ pc = "called"
    /\ LET Entered(samples, priceValues) ==
               IF Len(samples) < 4
               THEN /\ result' = PLSentinel
                    /\ pc' = "done"
                    /\ UNCHANGED <<par, mom, ctx>>
               ELSE /\ ctx' = [samples |-> samples,
                               minPrice |-> MinOf(priceValues),
                               maxPrice |-> MaxOf(priceValues)]
                    /\ par' = PLInitial(samples)
                    /\ mom' = PLZeroMoments
                    /\ pc' = "loop"
                    /\ UNCHANGED result
           Sampled(samples) ==
               Entered(samples, [i \in 1..Len(samples) |-> samples[i].value])
       IN  Sampled(PLSamples(dates, prices))
    /\ step' = 0
    /\ trace' = <<>>
    /\ UNCHANGED <<fitArgs, run, first, notFit>>

\* script.js lines 920-981: one iteration of the optimizer
PLIterate ==
    /\ fn = "fitPowerLawQuantileRegression"
    /\ pc = "loop"
    /\ step < iterations
    /\ LET s == step + 1
           Updated(mo, p) ==
               /\ step' = s
               /\ mom' = mo
               /\ par' = p
               /\ trace' = Append(trace, [par |-> p, mom |-> mo])
           Moved(mo) ==
               Updated(mo, PLClamp(PLFallback(PLUpdate(par, mo, s), ctx.minPrice),
                                   ctx.maxPrice))
       IN  Moved(PLMoments(mom, PLGradients(ctx.samples, par, tau)))
    /\ UNCHANGED <<fitArgs, pc, ctx, result, run, first, notFit>>

\* script.js lines 983-988: the canonical order and the result
PLReturn ==
    /\ fn = "fitPowerLawQuantileRegression"
    /\ pc = "loop"
    /\ step >= iterations
    /\ result' = PLCanonical(par)
    /\ pc' = "done"
    /\ UNCHANGED <<fitArgs, step, par, mom, ctx, run, first, trace, notFit>>

\* part_001 lines 89-118: the samples, the initial line and the zero moments
LLEnter ==
    /\ fn = "fitLogLogQuantileRegression"
    /\ pc = "called"
    /\ LET Entered(samples) ==
               /\ ctx' = [samples |-> samples]
               /\ par' = LLInitial(samples, tau)
       IN  Entered(LLSamples(dates, prices))
    /\ mom' = LLZeroMoments
    /\ pc' = "loop"
    /\ step' = 0
    /\ trace' = <<>>
    /\ UNCHANGED <<fitArgs, result, run, first, notFit>>

\* part_001 lines 120-146: one iteration of the optimizer
LLIterate ==
    /\ fn = "fitLogLogQuantileRegression"
    /\ pc = "loop"
    /\ step < iterations
    /\ LET s == step + 1
           Updated(mo, p) ==
               /\ step' = s
               /\ mom' = mo
               /\ par' = p
               /\ trace' = Append(trace, [par |-> p, mom |-> mo])
           Moved(mo) == Updated(mo, LLUpdate(par, mo, s))
       IN  Moved(LLMoments(mom, LLGradients(ctx.samples, par, tau)))
    /\ UNCHANGED <<fitArgs, pc, ctx, result, run, first, notFit>>

\* part_001 lines 148-156: the intercept shift and the result
LLReturn ==
    /\ fn = "fitLogLogQuantileRegression"
    /\ pc = "loop"
    /\ step >= iterations
    /\ result' = LLResult(ctx.samples, par, tau)
    /\ pc' = "done"
    /\ UNCHANGED <<fitArgs, step, par, mom, ctx, run, first, trace, notFit>>

\* the day index of a date as the fitter f computes it
FitterDay(f, date) ==
    IF f = "fitPowerLawQuantileRegression"
    THEN IndexToNum(convertToBitcoinDayIndex(date))
    ELSE IndexToNum(daySinceGenesis(date))

\* the positions of the pairs whose day index and price are both finite
ValidPairs(f, ds, ps) ==
    {i \in 1..Len(ds) : IsFinite(FitterDay(f, ds[i])) /\ IsFinite(ToNumber(At(ps, i)))}

RECURSIVE Keep(_, _, _)
\* the entries of seq at the positions in keep, in their order, from position i on
Keep(seq, keep, i) ==
    IF i > Len(seq) THEN <<>>
    ELSE (IF i \in keep THEN <<seq[i]>> ELSE <<>>) \o Keep(seq, keep, i + 1)

\* the same fitter is called once more on the same arguments
CallAgain ==
    /\ pc = "done"
    /\ run = "first"
    /\ run' = "again"
    /\ first' = [result |-> result, trace |-> trace]
    /\ pc' = "called"
    /\ UNCHANGED <<fitArgs, step, par, mom, ctx, result, trace, notFit>>

\* the same fitter is called once more on the input without its offending pairs
CallCleaned ==
    /\ pc = "done"
    /\ run = "first"
    /\ LET Cleaned(keep) ==
               /\ Cardinality(keep) < Len(dates)
               /\ dates' = Keep(dates, keep, 1)
               /\ prices' = Keep(prices, keep, 1)
       IN  Cleaned(ValidPairs(fn, dates, prices))
    /\ run' = "cleaned"
    /\ first' = [result |-> result, trace |-> trace]
    /\ pc' = "called"
    /\ UNCHANGED <<fn, tau, iterations, step, par, mom, ctx, result, trace, notFit>>

FitNext ==
    \/ PLEnter \/ PLIterate \/ PLReturn
    \/ LLEnter \/ LLIterate \/ LLReturn
    \/ CallAgain \/ CallCleaned

FitIdle ==
    /\ fn = "none" /\ dates = <<>> /\ prices = <<>> /\ tau = Zero /\ iterations = 0
    /\ pc = "idle" /\ step = 0 /\ par = NoParams /\ mom = PLZeroMoments
    /\ ctx = NoCtx /\ result = PLSentinel /\ run = "first" /\ first = NoFirst
    /\ trace = <<>>

SpecFit == FitInit /\ [][FitNext]_vars

-----------------------------------------------------------------------------
(* The calendar walk: every well-formed date reached day by day from the    *)
(* genesis date, with the count of whole days between the two.              *)

NextDay(date) ==
    IF date.d < DaysInMonth(date.y, date.m) THEN MkDate(date.y, date.m, date.d + 1)
    ELSE IF date.m < 12 THEN MkDate(date.y, date.m + 1, 1)
    ELSE MkDate(date.y + 1, 1, 1)

PrevDay(date) ==
    IF date.d > 1 THEN MkDate(date.y, date.m, date.d - 1)
    ELSE IF date.m > 1 THEN MkDate(date.y, date.m - 1, DaysInMonth(date.y, date.m - 1))
    ELSE MkDate(date.y - 1, 12, 31)

DayInit ==
    /\ cal = GENESIS_DATE
    /\ wholeDays = 0
    /\ walkDir \in {"back", "fwd"}
    /\ FitIdle
    /\ PredIdle
    /\ OthersIdle

StepBack ==
    /\ walkDir = "back"
    /\ wholeDays > -MaxBack
    /\ cal' = PrevDay(cal)
    /\ wholeDays' = wholeDays - 1
    /\ UNCHANGED <<walkDir, notDay>>

StepFwd ==
    /\ walkDir = "fwd"
    /\ wholeDays < MaxFwd
    /\ cal' = NextDay(cal)
    /\ wholeDays' = wholeDays + 1
    /\ UNCHANGED <<walkDir, notDay>>

\* the same calendar day one year earlier / later (not from a 29 February)
YearBack ==
    /\ walkDir = "back"
    /\ ~(cal.m = 2 /\ cal.d = 29)
    /\ LET len == IF (cal.m <= 2 /\ IsLeap(cal.y - 1)) \/ (cal.m > 2 /\ IsLeap(cal.y))
                  THEN 366 ELSE 365
       IN  /\ wholeDays - len >= -MaxBack
           /\ cal' = MkDate(cal.y - 1, cal.m, cal.d)
           /\ wholeDays' = wholeDays - len
    /\ UNCHANGED <<walkDir, notDay>>

YearFwd ==
    /\ walkDir = "fwd"
    /\ ~(cal.m = 2 /\ cal.d = 29)
    /\ LET len == IF (cal.m <= 2 /\ IsLeap(cal.y)) \/ (cal.m > 2 /\ IsLeap(cal.y + 1))
                  THEN 366 ELSE 365
       IN  /\ wholeDays + len <= MaxFwd
           /\ cal' = MkDate(cal.y + 1, cal.m, cal.d)
           /\ wholeDays' = wholeDays + len
    /\ UNCHANGED <<walkDir, notDay>>

DayNext == StepBack \/ StepFwd \/ YearBack \/ YearFwd

SpecDay == DayInit /\ [][DayNext]_vars

-----------------------------------------------------------------------------
(* The predictor calls: Init gives the arguments, the call returns.         *)

PredDates == {GENESIS_DATE, MkDate(2010, 7, 18), BadDate}
ParamValues == {Zero, Fl(15, -1), NaN, PInf, NInf, Undefined}
LineValues == {Zero, Fl(547, -2), Fl(-3633, -2), NaN, PInf, NInf}

PredInit ==
    /\ pfn \in {"predictPowerLaw", "predictSingleTermPowerLaw", "serializeCell"}
    /\ \E date \in PredDates :
          \/ /\ pfn = "predictPowerLaw"
             /\ \E a \in ParamValues, b \in ParamValues, c \in ParamValues, d \in ParamValues :
                   pargs = [NoArgs EXCEPT !.date = date, !.params = Params(a, b, c, d)]
          \/ /\ pfn = "predictSingleTermPowerLaw"
             /\ \E a \in ParamValues, b \in ParamValues :
                   pargs = [NoArgs EXCEPT !.date = date,
                                          !.params = Params(a, b, Undefined, Undefined)]
          \/ /\ pfn \in {"predictPowerLaw", "predictSingleTermPowerLaw"}
             /\ \E k \in {"null", "undef"} :
                   pargs = [NoArgs EXCEPT !.date = date, !.params = NoObject(k)]
          \/ /\ pfn = "serializeCell"
             /\ \E alpha \in LineValues, beta \in LineValues :
                   pargs = [NoArgs EXCEPT !.date = date, !.alpha = alpha, !.beta = beta]
    /\ ppc = "called"
    /\ pout = Undefined
    /\ pcell = NoCell
    /\ DayIdle
    /\ FitIdle
    /\ OthersIdle

\* script.js lines 991-999
PredictPowerLaw ==
    /\ pfn = "predictPowerLaw"
    /\ ppc = "called"
    /\ pout' = predictPowerLaw(pargs.date, pargs.params)
    /\ ppc' = "returned"
    /\ UNCHANGED <<pfn, pargs, pcell, notPred>>

\* script.js lines 375-383
PredictSingleTermPowerLaw ==
    /\ pfn = "predictSingleTermPowerLaw"
    /\ ppc = "called"
    /\ pout' = predictSingleTermPowerLaw(pargs.date, pargs.params)
    /\ ppc' = "returned"
    /\ UNCHANGED <<pfn, pargs, pcell, notPred>>

\* part_001 line 236: one quantile cell of a row of the price file
SerializeCell ==
    /\ pfn = "serializeCell"
    /\ ppc = "called"
    /\ LET Written(predicted) ==
               /\ pout' = predicted
               /\ pcell' = ToFixed2(predicted)
       IN  Written(scriptPredictPowerLaw(pargs.date, pargs.alpha, pargs.beta))
    /\ ppc' = "returned"
    /\ UNCHANGED <<pfn, pargs, notPred>>

PredNext == PredictPowerLaw \/ PredictSingleTermPowerLaw \/ SerializeCell

SpecPredict == PredInit /\ [][PredNext]_vars

-----------------------------------------------------------------------------
(* Moving averages: rollingAverage(values, windowSize) of the price-database *)
(* scripts (the three copies are the same text).                            *)

\* the longest array given to rollingAverage
MaxValues == 5
\* the widest window
MaxWindow == 3

RECURSIVE RollingLoop(_, _, _, _, _)
\* the loop from index i (0-based) on, with the running sum and the result so far (out)
RollingLoop(vals, w, i, sum, out) ==
    IF i >= Len(vals) THEN out
    ELSE LET Emitted(s) ==
                 RollingLoop(vals, w, i + 1, s,
                             [out EXCEPT ![i + 1] = IF i >= w - 1 THEN Div(s, Num(w)) ELSE @])
             Slid(s) == Emitted(IF i >= w THEN Sub(s, vals[i - w + 1]) ELSE s)
         IN  Slid(Add(sum, vals[i + 1]))

\* new Array(values.length).fill(null), then the loop
rollingAverage(vals, w) == RollingLoop(vals, w, 0, Zero, [i \in 1..Len(vals) |-> Null])

\* the numbers of the arrays: small ones and one that absorbs them in a sum
AvgValues == {Num(1), Num(2), Num(3), Fl(1, 4)}

\* the arrays: every array over AvgValues, and 1, 2, 3, ...
AvgArrays ==
    UNION {[1..n -> AvgValues] : n \in 0..MaxValues} \cup {[i \in 1..MaxValues |-> Num(i)]}

AvgInit ==
    /\ values \in AvgArrays
    /\ windowSize \in 1..MaxWindow
    /\ apc = "called"
    /\ averages = <<>>
    /\ DayIdle
    /\ FitIdle
    /\ PredIdle
    /\ AttachIdle
    /\ LateIdle

RollingAverage ==
    /\ apc = "called"
    /\ averages' = rollingAverage(values, windowSize)
    /\ apc' = "returned"
    /\ UNCHANGED <<values, windowSize, notAvg>>

AvgNext == RollingAverage

SpecAverage == AvgInit /\ [][AvgNext]_vars

-----------------------------------------------------------------------------
(* script.js: attachCalculatedMovingAverages(rows) and calculatePowerLaw    *)

\* the most rows given to attachCalculatedMovingAverages
MaxRows == 5
\* the windows of the moving averages: 50, 200 and 1400 rows in the code, short
\* enough here for an array of MaxRows rows to fill them
ShortWindow == 2
MidWindow == 3
LongWindow == 4
\* the optimizer iterations of a fit made with the default options (8000 in
\* the code)
DefaultIterations == 1

RECURSIVE PLLoop(_, _, _, _, _, _)
\* lines 968-980 of iteration s + 1: the update with the moments mo2, the
\* fallbacks and the clamp, then the next iteration
PLLoopMoved(c, t, its, s, p, mo2) ==
    Only({PLLoop(c, t, its, s + 1, p2, mo2) :
             p2 \in {PLClamp(PLFallback(PLUpdate(p, mo2, s + 1), c.minPrice), c.maxPrice)}})

\* script.js lines 920-981: the iterations after the first s
PLLoop(c, t, its, s, p, mo) ==
    IF s >= its THEN p
    ELSE Only({PLLoopMoved(c, t, its, s, p, mo2) :
                  mo2 \in {PLMoments(mo, PLGradients(c.samples, p, t))}})

\* lines 887-893 and 983-988: too few samples give the sentinel, else the
\* parameters after the loop are put in canonical order
PLFitted(samples, priceValues, t, its) ==
    IF Len(samples) < 4 THEN PLSentinel
    ELSE PLCanonical(Only({PLLoop(c, t, its, 0, p, PLZeroMoments) :
                              c \in {[samples |-> samples,
                                      minPrice |-> MinOf(priceValues),
                                      maxPrice |-> MaxOf(priceValues)]},
                              p \in {PLInitial(samples)}}))

\* line 891: priceValues = samples.map(sample => sample.value)
PLSampled(samples, t, its) ==
    PLFitted(samples, [i \in 1..Len(samples) |-> samples[i].value], t, its)

\* script.js: fitPowerLawQuantileRegression(dates, prices, tau, {iterations})
\* as one function of its arguments
fitPowerLawQuantileRegression(ds, ps, t, its) == PLSampled(PLSamples(ds, ps), t, its)

\* the columns fetchLocalCsvPrices reads with toNullableNumber
IndicatorColumns ==
    {"sma50dEur", "sma200dEur", "sma200wEur", "sma200wFactorEur",
     "sma50dUsd", "sma200dUsd", "sma200wUsd", "sma200wFactorUsd",
     "powerLawQ01Eur", "powerLawQ50Eur", "powerLawQ99Eur", "powerLawFactorEur",
     "powerLawQ01Usd", "powerLawQ50Usd", "powerLawQ99Usd", "powerLawFactorUsd"}

\* a row object: date, closeEur, closeUsd and the cells of the indicator columns
Row(date, closeEur, closeUsd, cells) ==
    [f \in {"date", "closeEur", "closeUsd"} \cup IndicatorColumns |->
        IF f = "date" THEN date
        ELSE IF f = "closeEur" THEN closeEur
        ELSE IF f = "closeUsd" THEN closeUsd
        ELSE cells[f]]

\* a.localeCompare(b) < 0 and a < b on date strings: 'YYYY-MM-DD' strings
\* compare as their fields do, and a string like 'garbage' comes after them
DateStringLess(a, b) ==
    IF WellFormed(a) /\ WellFormed(b)
    THEN \/ a.y < b.y
         \/ a.y = b.y /\ a.m < b.m
         \/ a.y = b.y /\ a.m = b.m /\ a.d < b.d
    ELSE WellFormed(a) /\ ~WellFormed(b)

\* row goes after the k sorted rows that are not later than it
SortPlaced(sorted, row, k) ==
    SubSeq(sorted, 1, k) \o <<row>> \o SubSeq(sorted, k + 1, Len(sorted))

SortInserted(sorted, row) ==
    SortPlaced(sorted, row,
               Cardinality({i \in 1..Len(sorted) : ~DateStringLess(row.date, sorted[i].date)}))

RECURSIVE SortByDate(_)
\* [...rows].sort((a, b) => a.date.localeCompare(b.date)): a stable sort
SortByDate(rs) ==
    IF Len(rs) = 0 THEN <<>>
    ELSE SortInserted(SortByDate(SubSeq(rs, 1, Len(rs) - 1)), rs[Len(rs)])

\* a faulty variant: the stored value is ignored (C13 tells it from the code)
CoalesceComputed(stored, computed) == computed

\* stored ?? computed
Coalesce(stored, computed) == IF stored.k \in {"null", "undef"} THEN computed ELSE stored

\* row.sma.. ?? (index >= window - 1 ? sum / window : null)
movingAverage(stored, index, sum, window) ==
    Coalesce(stored, IF index >= window - 1 THEN Div(sum, Num(window)) ELSE Null)

\* row.sma200wFactor.. ?? (Number.isFinite(sma200w) && sma200w !== 0 ? close / sma200w : null)
sma200wFactor(stored, sma200w, close) ==
    Coalesce(stored, IF IsFinite(sma200w) /\ sma200w # Zero THEN Div(close, sma200w) ELSE Null)

\* a faulty variant: no test of q99 against q01 (C16 tells it from the code)
powerLawFactorUnguarded(stored, q01, q99, close) ==
    Coalesce(stored, IF IsFinite(q99) /\ IsFinite(q01)
                     THEN Div(Sub(close, q01), Sub(q99, q01)) ELSE Null)

\* row.powerLawFactor.. ?? (Number.isFinite(q99) && Number.isFinite(q01) && q99 !== q01
\*                          ? (close - q01) / (q99 - q01) : null)
powerLawFactor(stored, q01, q99, close) ==
    Coalesce(stored, IF IsFinite(q99) /\ IsFinite(q01) /\ q99 # q01
                     THEN Div(Sub(close, q01), Sub(q99, q01)) ELSE Null)

\* a fit result as the params object predictPowerLaw takes
FitParams(fit) == Params(fit.a, fit.b, fit.c, fit.d)

\* script.js lines 821-827: the row's closes enter the six sums
SumsPlus(sums, row) ==
    [eurSum50 |-> Add(sums.eurSum50, row.closeEur),
     eurSum200 |-> Add(sums.eurSum200, row.closeEur),
     eurSum1400 |-> Add(sums.eurSum1400, row.closeEur),
     usdSum50 |-> Add(sums.usdSum50, row.closeUsd),
     usdSum200 |-> Add(sums.usdSum200, row.closeUsd),
     usdSum1400 |-> Add(sums.usdSum1400, row.closeUsd)]

\* script.js lines 829-840: the closes that left a window leave its sum
SumsMinus(sums, sorted, index) ==
    [eurSum50 |-> IF index >= ShortWindow
                  THEN Sub(sums.eurSum50, sorted[index - ShortWindow + 1].closeEur)
                  ELSE sums.eurSum50,
     eurSum200 |-> IF index >= MidWindow
                   THEN Sub(sums.eurSum200, sorted[index - MidWindow + 1].closeEur)
                   ELSE sums.eurSum200,
     eurSum1400 |-> IF index >= LongWindow
                    THEN Sub(sums.eurSum1400, sorted[index - LongWindow + 1].closeEur)
                    ELSE sums.eurSum1400,
     usdSum50 |-> IF index >= ShortWindow
                  THEN Sub(sums.usdSum50, sorted[index - ShortWindow + 1].closeUsd)
                  ELSE sums.usdSum50,
     usdSum200 |-> IF index >= MidWindow
                   THEN Sub(sums.usdSum200, sorted[index - MidWindow + 1].closeUsd)
                   ELSE sums.usdSum200,
     usdSum1400 |-> IF index >= LongWindow
                    THEN Sub(sums.usdSum1400, sorted[index - LongWindow + 1].closeUsd)
                    ELSE sums.usdSum1400]

\* script.js lines 814-819 and 851-862: the six fits in the order of the
\* source, each with the column it fills, the closes it is fitted to and its tau
PowerLawCells ==
    <<[column |-> "powerLawQ01Eur", closes |-> "closeEur", tau |-> Fl(1, -2)],
      [column |-> "powerLawQ50Eur", closes |-> "closeEur", tau |-> Fl(5, -1)],
      [column |-> "powerLawQ99Eur", closes |-> "closeEur", tau |-> Fl(99, -2)],
      [column |-> "powerLawQ01Usd", closes |-> "closeUsd", tau |-> Fl(1, -2)],
      [column |-> "powerLawQ50Usd", closes |-> "closeUsd", tau |-> Fl(5, -1)],
      [column |-> "powerLawQ99Usd", closes |-> "closeUsd", tau |-> Fl(99, -2)]>>

\* sorted.map(row => row[f])
ColumnOf(sorted, f) == [i \in 1..Len(sorted) |-> sorted[i][f]]

RECURSIVE FitsLoop(_, _, _)
\* script.js lines 814-819: the fits from the i-th on
FitsLoop(sorted, i, out) ==
    IF i > Len(PowerLawCells) THEN out
    ELSE FitsLoop(sorted, i + 1,
                  Append(out, fitPowerLawQuantileRegression(
                                  ColumnOf(sorted, "date"),
                                  ColumnOf(sorted, PowerLawCells[i].closes),
                                  PowerLawCells[i].tau, DefaultIterations)))

\* script.js lines 851-862: row.powerLawQ.. ?? predictPowerLaw(row.date, fit),
\* for the cells in the order of PowerLawCells
QuantileCells(row, fits) ==
    [i \in 1..Len(PowerLawCells) |->
        Coalesce(row[PowerLawCells[i].column],
                 predictPowerLaw(row.date, FitParams(fits[i])))]

\* script.js lines 842-866: the returned object, from the two long averages
\* and the six quantile cells q in the order of PowerLawCells
AttachedCells(row, index, sums, sma200wEur, sma200wUsd, q) ==
    [row EXCEPT
        !.sma50dEur = movingAverage(@, index, sums.eurSum50, ShortWindow),
        !.sma200dEur = movingAverage(@, index, sums.eurSum200, MidWindow),
        !.sma200wEur = sma200wEur,
        !.sma200wFactorEur = sma200wFactor(@, sma200wEur, row.closeEur),
        !.sma50dUsd = movingAverage(@, index, sums.usdSum50, ShortWindow),
        !.sma200dUsd = movingAverage(@, index, sums.usdSum200, MidWindow),
        !.sma200wUsd = sma200wUsd,
        !.sma200wFactorUsd = sma200wFactor(@, sma200wUsd, row.closeUsd),
        !.powerLawQ01Eur = q[1],
        !.powerLawQ50Eur = q[2],
        !.powerLawQ99Eur = q[3],
        !.powerLawFactorEur = powerLawFactor(@, q[1], q[3], row.closeEur),
        !.powerLawQ01Usd = q[4],
        !.powerLawQ50Usd = q[5],
        !.powerLawQ99Usd = q[6],
        !.powerLawFactorUsd = powerLawFactor(@, q[4], q[6], row.closeUsd)]

\* script.js lines 842-866: the returned row at index (0-based), from the sums
\* after this row and the six fits
AttachedRow(row, index, sums, fits) ==
    AttachedCells(row, index, sums,
                  movingAverage(row.sma200wEur, index, sums.eurSum1400, LongWindow),
                  movingAverage(row.sma200wUsd, index, sums.usdSum1400, LongWindow),
                  QuantileCells(row, fits))

RECURSIVE AttachLoop(_, _, _, _)
\* script.js lines 842-866: the row at index is mapped with the sums after it
AttachMapped(sorted, fits, index, sums2) ==
    <<AttachedRow(sorted[index + 1], index, sums2, fits)>>
        \o AttachLoop(sorted, fits, index + 1, sums2)

\* sorted.map((row, index) => ...) from index on, with the sums before it
AttachLoop(sorted, fits, index, sums) ==
    IF index >= Len(sorted) THEN <<>>
    ELSE AttachMapped(sorted, fits, index,
                      SumsMinus(SumsPlus(sums, sorted[index + 1]), sorted, index))

ZeroSums ==
    [eurSum50 |-> Zero, eurSum200 |-> Zero, eurSum1400 |-> Zero,
     usdSum50 |-> Zero, usdSum200 |-> Zero, usdSum1400 |-> Zero]

\* script.js lines 812-867: the fits and the map over the sorted copy
AttachSorted(sorted) ==
    Only({AttachLoop(sorted, fits, 0, ZeroSums) : fits \in {FitsLoop(sorted, 1, <<>>)}})

\* script.js lines 799-868
attachCalculatedMovingAverages(rs) == Only({AttachSorted(sorted) : sorted \in {SortByDate(rs)}})

\* the stored cells of a row of the local table
StoredKinds == {"zeros", "values", "bands", "flatBands", "invertedBands", "zeroSma", "badDate"}

StoredCells(kind) ==
    LET q01s == {"powerLawQ01Eur", "powerLawQ01Usd"}
        q99s == {"powerLawQ99Eur", "powerLawQ99Usd"}
    IN  [f \in IndicatorColumns |->
            IF kind = "zeros" THEN Zero
            ELSE IF kind = "values" THEN Fl(75, -1)
            ELSE IF kind = "bands" /\ f \in q01s THEN Num(1)
            ELSE IF kind = "bands" /\ f \in q99s THEN Num(3)
            ELSE IF kind = "flatBands" /\ f \in q01s \cup q99s THEN Num(2)
            ELSE IF kind = "invertedBands" /\ f \in q01s THEN Num(3)
            ELSE IF kind = "invertedBands" /\ f \in q99s THEN Num(1)
            ELSE IF kind = "zeroSma" /\ f \in {"sma200wEur", "sma200wUsd"} THEN Zero
            ELSE Null]

\* the tables: n rows of rising closes on consecutive days, in ascending or
\* descending order, at most one of them (odd) with stored cells or no date
TableShapes ==
    {[n |-> n, odd |-> 0, kind |-> "none"] : n \in 0..MaxRows}
        \cup {sh \in [n : 1..MaxRows, odd : 1..MaxRows, kind : StoredKinds] : sh.odd <= sh.n}

TableRows(sh, order) ==
    [j \in 1..sh.n |->
        LET i == IF order = "ascending" THEN j ELSE sh.n + 1 - j
            kind == IF i = sh.odd THEN sh.kind ELSE "none"
        IN  Row(IF kind = "badDate" THEN BadDate ELSE SeriesDate("rising", i),
                SeriesPrice("rising", i),
                Mul(SeriesPrice("rising", i), Num(2)),
                StoredCells(kind))]

AttachInit ==
    /\ \E sh \in TableShapes, order \in {"ascending", "descending"} :
          rows = TableRows(sh, order)
    /\ attached = <<>>
    /\ atpc = "called"
    /\ kpiCurrency = "none"
    /\ kpi = NoKpi
    /\ DayIdle
    /\ FitIdle
    /\ PredIdle
    /\ AvgIdle
    /\ LateIdle

\* a faulty variant: the caller's array is sorted in place (C20 tells it from
\* the code)
AttachSortInPlace ==
    /\ atpc = "called"
    /\ attached' = attachCalculatedMovingAverages(rows)
    /\ rows' = SortByDate(rows)
    /\ atpc' = "returned"
    /\ UNCHANGED <<kpiCurrency, kpi, notAttach>>

\* script.js lines 799-868: the call works on a sorted copy of rows and on
\* copies of the row objects
Attach ==
    /\ atpc = "called"
    /\ attached' = attachCalculatedMovingAverages(rows)
    /\ atpc' = "returned"
    /\ UNCHANGED <<rows, kpiCurrency, kpi, notAttach>>

\* the keys of a row for a currency: currentChartCurrency === 'usd' ? 'closeUsd' : 'closeEur', ...
CurrencyKey(name, currency) == name \o (IF currency = "usd" THEN "Usd" ELSE "Eur")

\* a faulty variant: rows with q99 <= q01 are kept (C29 tells it from the code)
ModelRowsCrossed(rs, currency) ==
    LET priceKey == IF currency = "usd" THEN "closeUsd" ELSE "closeEur"
        q01Key == IF currency = "usd" THEN "powerLawQ01Usd" ELSE "powerLawQ01Eur"
        q99Key == IF currency = "usd" THEN "powerLawQ99Usd" ELSE "powerLawQ99Eur"
        factorKey == IF currency = "usd" THEN "powerLawFactorUsd" ELSE "powerLawFactorEur"
        Kept(row) ==
            /\ IsFinite(row[priceKey])
            /\ IsFinite(row[q01Key])
            /\ IsFinite(row[q99Key])
            /\ IsFinite(row[factorKey])
    IN  SortByDate(SelectSeq(rs, Kept))

\* script.js lines 1083-1091: the rows calculatePowerLaw keeps
ModelRows(rs, currency) ==
    LET priceKey == IF currency = "usd" THEN "closeUsd" ELSE "closeEur"
        q01Key == IF currency = "usd" THEN "powerLawQ01Usd" ELSE "powerLawQ01Eur"
        q99Key == IF currency = "usd" THEN "powerLawQ99Usd" ELSE "powerLawQ99Eur"
        factorKey == IF currency = "usd" THEN "powerLawFactorUsd" ELSE "powerLawFactorEur"
        Kept(row) ==
            /\ IsFinite(row[priceKey])
            /\ IsFinite(row[q01Key])
            /\ IsFinite(row[q99Key])
            /\ IsFinite(row[factorKey])
            /\ Greater(row[q99Key], row[q01Key])
    IN  SortByDate(SelectSeq(rs, Kept))

\* script.js line 1109: Number.isFinite(q50) ? formatCurrency(q50, fiat) : '-'
FiniteOrDash(q50) == IF IsFinite(q50) THEN q50 ELSE Null

\* script.js lines 1101-1106: the share of the model rows whose factor is
\* above the factor of the latest one
CheaperThanPercent(modelRows, factorKey) ==
    LET currentFactor == modelRows[Len(modelRows)][factorKey]
        daysWithLargerFactor ==
            Cardinality({i \in 1..Len(modelRows) :
                            Greater(modelRows[i][factorKey], currentFactor)})
    IN  Mul(Div(Num(daysWithLargerFactor), Num(Len(modelRows))), Num(100))

\* Math.max(0, Math.min(100, currentFactor * 100))
IndexPercent(currentFactor) ==
    MathMax(Zero, MathMin(Num(100), Mul(currentFactor, Num(100))))

\* script.js lines 1093-1128: no model row is the error text, else the latest
\* model row gives the date and the percentage
KpiOf(modelRows, currency) ==
    IF Len(modelRows) = 0 THEN [NoKpi EXCEPT !.state = "Fehler"]
    ELSE [state |-> "shown",
          date |-> modelRows[Len(modelRows)].date,
          percent |-> IndexPercent(modelRows[Len(modelRows)][
                          IF currency = "usd" THEN "powerLawFactorUsd"
                          ELSE "powerLawFactorEur"]),
          q01 |-> modelRows[Len(modelRows)][CurrencyKey("powerLawQ01", currency)],
          q50 |-> FiniteOrDash(modelRows[Len(modelRows)][CurrencyKey("powerLawQ50", currency)]),
          q99 |-> modelRows[Len(modelRows)][CurrencyKey("powerLawQ99", currency)],
          cheaper |-> CheaperThanPercent(modelRows, CurrencyKey("powerLawFactor", currency))]

\* script.js lines 1073-1129: calculatePowerLaw(currency) on localPriceRows
CalculatePowerLaw ==
    /\ atpc = "returned"
    /\ kpiCurrency = "none"
    /\ \E currency \in {"usd", "eur"} :
          /\ kpiCurrency' = currency
          /\ kpi' = KpiOf(ModelRows(attached, currency), currency)
    /\ UNCHANGED <<rows, attached, atpc, notAttach>>

AttachNext == Attach \/ CalculatePowerLaw

SpecAttach == AttachInit /\ [][AttachNext]_vars

\* the closes of the tables of the moving averages: small ones and one that
\* absorbs them in a sum
SmaCloses == {Num(1), Num(3), Fl(1, 4)}

\* a table of the moving averages: the EUR closes on consecutive days, the USD
\* close twice the EUR close; the row of day odd has stored moving averages
SmaRows(closes, odd, order) ==
    [j \in 1..Len(closes) |->
        LET i == IF order = "ascending" THEN j ELSE Len(closes) + 1 - j
        IN  Row(SeriesDate("rising", i), closes[i], Mul(closes[i], Num(2)),
                StoredCells(IF i = odd THEN "values" ELSE "none"))]

SmaInit ==
    /\ \E n \in 0..MaxRows :
          \E closes \in [1..n -> SmaCloses], odd \in {0, 2},
             order \in {"ascending", "descending"} :
              rows = SmaRows(closes, odd, order)
    /\ attached = <<>>
    /\ atpc = "called"
    /\ kpiCurrency = "none"
    /\ kpi = NoKpi
    /\ DayIdle
    /\ FitIdle
    /\ PredIdle
    /\ AvgIdle
    /\ LateIdle

SpecSma == SmaInit /\ [][AttachNext]_vars

-----------------------------------------------------------------------------
(* The readers of the price file: script.js fetchLocalCsvPrices and the     *)
(* update script's loadExistingRows                                         *)

\* the most data lines of a price file
MaxLines == 3

\* a cell of the file: its text; for the text of a date 'YYYY-MM-DD' the date
\* it names, and for a text that toFixed(2) wrote the number it spells; a
\* position that has no cell reads as undefined
TextCell(s) == [s |-> s, date |-> BadDate, num |-> Zero]
DateCell(d) == [s |-> "date", date |-> d, num |-> Zero]
WrittenCell(fixed) == [s |-> fixed.kind, date |-> BadDate, num |-> fixed.value]
NoText == [s |-> "undefined", date |-> BadDate, num |-> Zero]

\* the texts of the cells of the model's files
CellTexts == {"", " ", "0", "0.00", "2", "7.5", "abc"}
\* the texts of 1, 2, 3, ...: the closes of the lines of a file
DigitTexts == <<"1", "2", "3", "4", "5", "6">>

\* Number(text) (ECMAScript StringToNumber): white space is stripped, the
\* empty rest is 0, a decimal literal is its value and any other text is NaN
NumberOf(cell) ==
    IF cell.s \in {"", " ", "0", "0.00"} THEN Zero
    ELSE IF cell.s \in {"decimal", "exponential"} THEN cell.num
    ELSE IF cell.s = "Infinity" THEN PInf
    ELSE IF cell.s = "-Infinity" THEN NInf
    ELSE IF cell.s = "7.5" THEN Fl(75, -1)
    ELSE IF \E i \in 1..Len(DigitTexts) : DigitTexts[i] = cell.s
    THEN Num(CHOOSE i \in 1..Len(DigitTexts) : DigitTexts[i] = cell.s)
    ELSE NaN

\* script.js lines 739-743
toNullableNumber(value) ==
    IF value = NoText \/ value.s = "" THEN Null
    ELSE IF IsFinite(NumberOf(value)) THEN NumberOf(value)
    ELSE Null

\* !value of a cell: undefined and the empty string are falsy
Falsy(cell) == cell = NoText \/ cell.s = ""

\* the header name of each indicator column (script.js lines 770-785)
CsvName(f) ==
    CASE f = "sma50dEur" -> "sma50d_eur"
      [] f = "sma200dEur" -> "sma200d_eur"
      [] f = "sma200wEur" -> "sma200w_eur"
      [] f = "sma200wFactorEur" -> "sma200w_factor_eur"
      [] f = "sma50dUsd" -> "sma50d_usd"
      [] f = "sma200dUsd" -> "sma200d_usd"
      [] f = "sma200wUsd" -> "sma200w_usd"
      [] f = "sma200wFactorUsd" -> "sma200w_factor_usd"
      [] f = "powerLawQ01Eur" -> "powerlaw_q01_eur"
      [] f = "powerLawQ50Eur" -> "powerlaw_q50_eur"
      [] f = "powerLawQ99Eur" -> "powerlaw_q99_eur"
      [] f = "powerLawFactorEur" -> "powerlaw_factor_eur"
      [] f = "powerLawQ01Usd" -> "powerlaw_q01_usd"
      [] f = "powerLawQ50Usd" -> "powerlaw_q50_usd"
      [] f = "powerLawQ99Usd" -> "powerlaw_q99_usd"
      [] f = "powerLawFactorUsd" -> "powerlaw_factor_usd"

\* script.js line 754: new Map(header.map((name, index) => [name, index])).get(name),
\* counted from 1, and 0 for a name the header does not have; of two columns of
\* one name the Map keeps the later
columnIndex(header, name) ==
    LET found == {i \in 1..Len(header) : header[i] = name}
    IN  IF found = {} THEN 0 ELSE CHOOSE i \in found : \A j \in found : j <= i

\* script.js lines 755-759
readColumn(header, columns, name) ==
    LET index == columnIndex(header, name)
    IN  IF index = 0 THEN NoText
        ELSE IF index > Len(columns) THEN NoText
        ELSE columns[index]

\* script.js lines 766-786: the row object pushed for a line
PushedRow(header, columns) ==
    Row(readColumn(header, columns, "date").date,
        NumberOf(readColumn(header, columns, "close_eur")),
        NumberOf(readColumn(header, columns, "close_usd")),
        [f \in IndicatorColumns |-> toNullableNumber(readColumn(header, columns, CsvName(f)))])

\* script.js line 764: the lines that are not skipped
Pushed(header, columns) ==
    /\ ~Falsy(readColumn(header, columns, "date"))
    /\ ~Falsy(readColumn(header, columns, "close_eur"))
    /\ ~Falsy(readColumn(header, columns, "close_usd"))

FiniteCloses(row) == IsFinite(row.closeEur) /\ IsFinite(row.closeUsd)

\* script.js lines 750-788: the rows of a file that was fetched, before the
\* indicators are attached
ValidRowsOf(t) ==
    LET kept == SelectSeq(t.lines, LAMBDA columns : Pushed(t.header, columns))
        pushed == [i \in 1..Len(kept) |-> PushedRow(t.header, kept[i])]
    IN  SelectSeq(pushed, FiniteCloses)

\* script.js lines 745-797: a response that is not OK and a fetch that fails
\* both give []
LocalRowsOf(t) == IF t.status = "ok" THEN ValidRowsOf(t) ELSE <<>>

\* the update script's row of a line: const [date, closeEur, closeUsd] = line.split(',')
PositionCell(columns, i) == IF i > Len(columns) THEN NoText ELSE columns[i]

ExistingRow(columns) ==
    [date |-> PositionCell(columns, 1),
     closeEur |-> NumberOf(PositionCell(columns, 2)),
     closeUsd |-> NumberOf(PositionCell(columns, 3))]

\* part_001 lines 50-63: loadExistingRows, a file that does not exist gives []
loadExistingRows(t) ==
    IF t.status # "ok" THEN <<>>
    ELSE SelectSeq([i \in 1..Len(t.lines) |-> ExistingRow(t.lines[i])],
                   LAMBDA row : ~Falsy(row.date) /\ FiniteCloses(row))

\* the header of the model's files, with or without its last column
FullHeader == <<"date", "close_eur", "close_usd", "sma50d_eur", "sma200d_eur">>

\* the data line of day i of a file with the cell texts given, cut after
\* `width` cells
FileLine(i, eur, a, b, width) ==
    SubSeq(<<DateCell(SeriesDate("rising", i)), TextCell(eur), TextCell("2"),
             TextCell(a), TextCell(b)>>,
           1, width)

\* the files: up to MaxLines lines under a header of 4 or 5 columns, the first
\* line with the cell texts chosen and one cell short or not; and a file that is missing or cannot be fetched
Files ==
    {[status |-> "ok",
      header |-> SubSeq(FullHeader, 1, w),
      lines |-> [i \in 1..n |->
                    IF i = 1 THEN FileLine(i, eur, a, b, w - short)
                    ELSE FileLine(i, DigitTexts[i], "0", "", w)]] :
        n \in 0..MaxLines, w \in {4, 5}, short \in {0, 1},
        eur \in {"7.5", "", "abc"}, a \in CellTexts, b \in {"", "7.5"}}
    \cup {[status |-> st, header |-> <<>>, lines |-> <<>>] : st \in {"notOk", "failed"}}

\* a line with every cell its header has: a cell that is missing is empty
PaddedLine(columns, width) ==
    [i \in 1..width |-> IF i > Len(columns) THEN TextCell("") ELSE columns[i]]

\* the same file with its columns moved: column i of the result is column
\* order[i] of the file, header and cells together
Permuted(t, order) ==
    [t EXCEPT !.header = [i \in 1..Len(order) |-> t.header[order[i]]],
              !.lines = [j \in 1..Len(t.lines) |->
                            [i \in 1..Len(order) |->
                                PaddedLine(t.lines[j], Len(t.header))[order[i]]]]]

\* the same file with one more column, of a name no reader knows, in front of
\* the others or behind them
Extended(t, front) ==
    [t EXCEPT !.header = IF front THEN <<"note">> \o t.header ELSE t.header \o <<"note">>,
              !.lines = [j \in 1..Len(t.lines) |->
                            IF front THEN <<TextCell("abc")>> \o PaddedLine(t.lines[j], Len(t.header))
                            ELSE PaddedLine(t.lines[j], Len(t.header)) \o <<TextCell("abc")>>]]

Variants == {"reversed", "rotated", "unknownFirst", "unknownLast"}

VariantOf(t, v) ==
    LET w == Len(t.header)
    IN  IF t.status # "ok" THEN t
        ELSE IF v = "reversed" THEN Permuted(t, [i \in 1..w |-> w + 1 - i])
        ELSE IF v = "rotated" THEN Permuted(t, [i \in 1..w |-> (i % w) + 1])
        ELSE Extended(t, v = "unknownFirst")

EarlyIdle == DayIdle /\ FitIdle /\ PredIdle /\ AvgIdle /\ AttachIdle

ReadInit ==
    /\ reader \in {"fetchLocalCsvPrices", "loadExistingRows"}
    /\ table \in Files
    /\ \E v \in Variants : tableAlt = VariantOf(table, v)
    /\ rdpc = "called"
    /\ validRows = <<>>
    /\ readRows = <<>>
    /\ readRowsAlt = <<>>
    /\ EarlyIdle
    /\ PriceIdle
    /\ ChartIdle
    /\ DbIdle
    /\ UiIdle

\* script.js lines 745-797: the dashboard reads the file, then the other file
FetchLocalCsvPrices ==
    /\ reader = "fetchLocalCsvPrices"
    /\ \/ /\ rdpc = "called"
          /\ validRows' = LocalRowsOf(table)
          /\ readRows' = attachCalculatedMovingAverages(LocalRowsOf(table))
          /\ rdpc' = "returned"
          /\ UNCHANGED readRowsAlt
       \/ /\ rdpc = "returned"
          /\ validRows' = LocalRowsOf(tableAlt)
          /\ readRowsAlt' = attachCalculatedMovingAverages(LocalRowsOf(tableAlt))
          /\ rdpc' = "both"
          /\ UNCHANGED readRows
    /\ UNCHANGED <<reader, table, tableAlt, notRead>>

\* part_001 lines 50-63: the update script reads the file, then the other file
LoadExistingRows ==
    /\ reader = "loadExistingRows"
    /\ \/ /\ rdpc = "called"
          /\ readRows' = loadExistingRows(table)
          /\ rdpc' = "returned"
          /\ UNCHANGED readRowsAlt
       \/ /\ rdpc = "returned"
          /\ readRowsAlt' = loadExistingRows(tableAlt)
          /\ rdpc' = "both"
          /\ UNCHANGED readRows
    /\ UNCHANGED <<reader, table, tableAlt, validRows, notRead>>

ReadNext == FetchLocalCsvPrices \/ LoadExistingRows

SpecRead == ReadInit /\ [][ReadNext]_vars

-----------------------------------------------------------------------------
(* script.js: loadBitcoinData and getLatestLocalClose                       *)

\* how a fetch of the price file can end: a response that is OK, a response
\* that is not, no response
FetchOutcomes == {"ok", "notOk", "failed"}

\* script.js lines 745-797: fetchLocalCsvPrices() when the fetch of the file t
\* ends as `outcome`
fetchLocalCsvPrices(t, outcome) ==
    attachCalculatedMovingAverages(LocalRowsOf([t EXCEPT !.status = outcome]))

\* a price file of n lines in the order given, line `odd` without its EUR close
DatedFile(n, order, odd) ==
    [status |-> "ok",
     header |-> FullHeader,
     lines |-> [j \in 1..n |->
                   LET i == IF order = "ascending" THEN j
                            ELSE IF order = "descending" THEN n + 1 - j
                            ELSE (j % n) + 1
                   IN  FileLine(i, IF i = odd THEN "" ELSE DigitTexts[i], "0", "", 5)]]

DatedFiles ==
    {DatedFile(n, order, odd) :
        n \in 0..MaxLines, order \in {"ascending", "descending", "rotated"}, odd \in 0..MaxLines}

\* the text of an amount: formatCurrency(value, currency) gives two decimals
\* and the sign of the currency
formatCurrency(value, currency) == [currency |-> currency, amount |-> ToFixed2(value)]
\* the texts '-' and '—'
NoAmount == [currency |-> "none", amount |-> NoCell]

\* what the price API gives for EUR, USD and CHF
LivePrices == [eur |-> Num(4), usd |-> Num(5), chf |-> Num(3)]

\* a faulty variant: the first row of the array (C17 tells it from the code)
getFirstLocalClose(rs) == IF Len(rs) = 0 THEN <<>> ELSE <<rs[1]>>

RECURSIVE LatestOf(_, _, _)
\* rows.reduce((latest, row) => (row.date > latest.date ? row : latest), rows[0])
\* from row i on
LatestOf(rs, i, latest) ==
    IF i > Len(rs) THEN latest
    ELSE LatestOf(rs, i + 1, IF DateStringLess(latest.date, rs[i].date) THEN rs[i] ELSE latest)

\* script.js lines 1012-1017, on the rows fetchLocalCsvPrices gave: null is the
\* empty tuple, a row is the tuple of that row
getLatestLocalClose(rs) == IF Len(rs) = 0 THEN <<>> ELSE <<LatestOf(rs, 1, rs[1])>>

PriceInit ==
    /\ priceFile \in DatedFiles
    /\ bpc = "idle"
    /\ apiOutcome = "none"
    /\ fileOutcome = "none"
    /\ panel = [eur |-> NoAmount, usd |-> NoAmount, chf |-> NoAmount, change |-> "-"]
    /\ reported = "none"
    /\ EarlyIdle
    /\ ReadIdle
    /\ ChartIdle
    /\ DbIdle
    /\ UiIdle

\* script.js lines 101-106: a call of loadBitcoinData sends the request
LoadBitcoinData ==
    /\ bpc = "idle"
    /\ bpc' = "request"
    /\ apiOutcome' = "none"
    /\ fileOutcome' = "none"
    /\ reported' = "none"
    /\ UNCHANGED <<priceFile, panel, notPrice>>

\* script.js lines 107-115: the request ends; a response that is OK is shown
\* (updatePriceDisplay, lines 133-155), anything else enters the catch block,
\* which asks for the latest local close
BitcoinResponse ==
    /\ bpc = "request"
    /\ \E outcome \in {"ok", "notOk", "networkError"} :
          /\ apiOutcome' = outcome
          /\ IF outcome = "ok"
             THEN /\ panel' = [eur |-> formatCurrency(LivePrices.eur, "EUR"),
                               usd |-> formatCurrency(LivePrices.usd, "USD"),
                               chf |-> formatCurrency(LivePrices.chf, "CHF"),
                               change |-> "24h"]
                  /\ bpc' = "idle"
             ELSE /\ panel' = panel
                  /\ bpc' = "local"
    /\ UNCHANGED <<priceFile, fileOutcome, reported, notPrice>>

\* script.js lines 116-130: the catch block once getLatestLocalClose has
\* answered
PriceShown(fallbackRow) ==
    IF fallbackRow # <<>>
    THEN /\ panel' = [eur |-> formatCurrency(fallbackRow[1].closeEur, "EUR"),
                      usd |-> formatCurrency(fallbackRow[1].closeUsd, "USD"),
                      chf |-> NoAmount,
                      change |-> "Offline-Modus (lokale CSV)"]
         /\ reported' = "none"
    ELSE /\ panel' = panel
         /\ reported' = "Preisdaten konnten nicht geladen werden"

ShowFallbackPrice ==
    /\ bpc = "local"
    /\ \E outcome \in FetchOutcomes :
          /\ fileOutcome' = outcome
          /\ PriceShown(getLatestLocalClose(fetchLocalCsvPrices(priceFile, outcome)))
    /\ bpc' = "idle"
    /\ UNCHANGED <<priceFile, apiOutcome, notPrice>>

PriceNext == LoadBitcoinData \/ BitcoinResponse \/ ShowFallbackPrice

SpecPrice == PriceInit /\ [][PriceNext]_vars

-----------------------------------------------------------------------------
(* script.js: loadChartData and buildFallbackChartSeries                    *)

\* the most calls of loadChartData
MaxRequests == 3

\* let currentChartDays = 7
InitialChartDays == 7

\* the data-days values of the timeframe buttons
ButtonDays == {DaysMax, Days(1), Days(2)}

\* how the request of the chart prices can end: a JSON with prices, no
\* response, a response that is not OK, a JSON with prices: [] and a JSON
\* without prices
ChartFailures == {"networkError", "notOk", "emptyPrices", "absentPrices"}
ChartOutcomes == {"prices"} \cup ChartFailures

\* the prices of the API: one point, at midnight of the first day
ApiPrices == <<[date |-> SeriesDate("rising", 1), price |-> Num(4)]>>

\* the price files of the chart model, of up to MaxLines lines in descending
\* order, each with the rows fetchLocalCsvPrices makes of it when its response is OK
ChartFiles ==
    {[table |-> DatedFile(n, "descending", 0),
      rows |-> fetchLocalCsvPrices(DatedFile(n, "descending", 0), "ok")] : n \in 0..MaxLines}

\* script.js lines 745-797: fetchLocalCsvPrices() on the file of the chart
\* model when the fetch ends as `outcome`
FetchedRows(outcome) == IF outcome = "ok" THEN chartFile.rows ELSE <<>>

\* script.js lines 285-294: the point of a row
ChartPoint(row, currency) ==
    [timestamp |-> DateParse(row.date),
     price |-> row[CurrencyKey("close", currency)],
     sma50d |-> row[CurrencyKey("sma50d", currency)],
     sma200d |-> row[CurrencyKey("sma200d", currency)],
     sma200w |-> row[CurrencyKey("sma200w", currency)],
     powerLawQ01 |-> row[CurrencyKey("powerLawQ01", currency)],
     powerLawQ50 |-> row[CurrencyKey("powerLawQ50", currency)],
     powerLawQ99 |-> row[CurrencyKey("powerLawQ99", currency)]]

\* a faulty variant: the first rows instead of the last (C18 tells it from the
\* code)
FallbackSliceFirst(sorted, days) ==
    IF days.max THEN sorted
    ELSE SubSeq(sorted, 1, Min2(days.n, Len(sorted)))

\* script.js line 276: days === 'max' ? sorted : sorted.slice(-days); -0 is 0,
\* and slice(0) is the whole array
FallbackSlice(sorted, days) ==
    IF days.max \/ days.n = 0 THEN sorted
    ELSE SubSeq(sorted, Max2(1, Len(sorted) - days.n + 1), Len(sorted))

PointsOf(usableRows, currency) ==
    [i \in 1..Len(usableRows) |-> ChartPoint(usableRows[i], currency)]

\* script.js lines 272-296
buildFallbackChartSeries(rs, days, currency) ==
    IF Len(rs) = 0 THEN <<>>
    ELSE PointsOf(FallbackSlice(SortByDate(rs), days), currency)

\* script.js lines 298-321: a price point takes the indicators of the row of
\* its date, the later of two rows of one date, and null without such a row
EnrichedPoint(point, rs, currency) ==
    LET found == {i \in 1..Len(rs) : rs[i].date = point.date}
    IN  IF found = {}
        THEN [timestamp |-> DateParse(point.date), price |-> point.price,
              sma50d |-> Null, sma200d |-> Null, sma200w |-> Null,
              powerLawQ01 |-> Null, powerLawQ50 |-> Null, powerLawQ99 |-> Null]
        ELSE [ChartPoint(rs[CHOOSE i \in found : \A j \in found : j <= i], currency)
                 EXCEPT !.price = point.price]

enrichMarketPricesWithMovingAverages(priceData, rs, currency) ==
    [i \in 1..Len(priceData) |-> EnrichedPoint(priceData[i], rs, currency)]

\* script.js line 241: a call of loadChartData takes the next requestId and
\* sends its request
NewRequest(days) ==
    [days |-> days, at |-> "api", outcome |-> "none", fileOutcome |-> "none",
     result |-> "none"]

Requested(days) ==
    /\ chartRequestId' = chartRequestId + 1
    /\ requests' = Append(requests, NewRequest(days))

\* what a call keeps of the end of a request: the catch block does not look
\* at the error, and fetchLocalCsvPrices gives [] for every failure
Kept(outcome) == IF outcome \in {"prices", "ok", "none"} THEN outcome ELSE "failed"

\* the call `id` returns
Settled(id, outcome, fileEnd, did) ==
    requests' = [requests EXCEPT ![id] = [days |-> @.days, at |-> "done",
                                          outcome |-> Kept(outcome),
                                          fileOutcome |-> Kept(fileEnd),
                                          result |-> did]]

\* script.js lines 262-268, with projectionDate = '' (line 342 returns the
\* series as it is)
FallbackShown(id, outcome, fileEnd, fallbackSeries) ==
    IF Len(fallbackSeries) > 0
    THEN /\ chart' = [by |-> id, source |-> "local", days |-> requests[id].days,
                      series |-> fallbackSeries]
         /\ chartReport' = chartReport
         /\ Settled(id, outcome, fileEnd, "fallback")
    ELSE /\ chart' = chart
         /\ chartReport' = "Chart konnte nicht geladen werden"
         /\ Settled(id, outcome, fileEnd, "error")

ChartInit ==
    /\ chartFile \in ChartFiles
    /\ appc = "start"
    /\ localPriceRows = <<>>
    /\ currentChartDays = Days(InitialChartDays)
    /\ currentChartCurrency = "eur"
    /\ chartRequestId = 0
    /\ requests = <<>>
    /\ chart = NoChart
    /\ chartReport = "none"
    /\ EarlyIdle
    /\ ReadIdle
    /\ PriceIdle
    /\ DbIdle
    /\ UiIdle

\* script.js lines 72-79: initApp reads the price file and calls loadChartData
InitApp ==
    /\ appc = "start"
    /\ \E outcome \in FetchOutcomes :
          localPriceRows' = FetchedRows(outcome)
    /\ Requested(currentChartDays)
    /\ appc' = "loading"
    /\ UNCHANGED <<chartFile, currentChartDays, currentChartCurrency, chart, chartReport,
                   notChart>>

\* script.js lines 79-83: when that call has returned the buttons get their
\* handlers
SetupChartControls ==
    /\ appc = "loading"
    /\ requests[1].at = "done"
    /\ appc' = "ready"
    /\ UNCHANGED <<chartFile, localPriceRows, currentChartDays, currentChartCurrency,
                   chartRequestId, requests, chart, chartReport, notChart>>

\* script.js lines 648-657: a click on a timeframe button
ClickTimeframe ==
    /\ appc = "ready"
    /\ chartRequestId < MaxRequests
    /\ \E days \in ButtonDays :
          /\ currentChartDays' = days
          /\ Requested(days)
    /\ UNCHANGED <<chartFile, appc, localPriceRows, currentChartCurrency, chart, chartReport,
                   notChart>>

\* script.js lines 674-681: a click on a currency button
ClickCurrency ==
    /\ appc = "ready"
    /\ chartRequestId < MaxRequests
    /\ \E currency \in {"eur", "usd"} : currentChartCurrency' = currency
    /\ Requested(currentChartDays)
    /\ UNCHANGED <<chartFile, appc, localPriceRows, currentChartDays, chart, chartReport,
                   notChart>>

\* script.js lines 244-263: the request of call `id` ends as `outcome`
Responded(id, outcome) ==
    IF id # chartRequestId
    THEN /\ Settled(id, outcome, "none", "dropped")
         /\ UNCHANGED <<chart, chartReport>>
    ELSE IF outcome = "prices"
    THEN /\ chart' = [by |-> id, source |-> "api", days |-> requests[id].days,
                      series |-> enrichMarketPricesWithMovingAverages(
                                     ApiPrices, localPriceRows, currentChartCurrency)]
         /\ chartReport' = chartReport
         /\ Settled(id, outcome, "none", "api")
    ELSE IF Len(localPriceRows) > 0
    THEN FallbackShown(id, outcome, "none",
                       buildFallbackChartSeries(localPriceRows, requests[id].days,
                                                currentChartCurrency))
    ELSE /\ requests' = [requests EXCEPT ![id] = [@ EXCEPT !.at = "local",
                                                           !.outcome = Kept(outcome)]]
         /\ UNCHANGED <<chart, chartReport>>

ChartResponse ==
    /\ \E id \in 1..Len(requests) :
          /\ requests[id].at = "api"
          /\ \E outcome \in ChartOutcomes : Responded(id, outcome)
    /\ UNCHANGED <<chartFile, appc, localPriceRows, currentChartDays, currentChartCurrency,
                   chartRequestId, notChart>>

\* script.js lines 262-269: the fetch of the price file of call `id` ends
ChartFileResponse ==
    /\ \E id \in 1..Len(requests) :
          /\ requests[id].at = "local"
          /\ \E outcome \in FetchOutcomes :
                FallbackShown(id, requests[id].outcome, outcome,
                              buildFallbackChartSeries(FetchedRows(outcome),
                                                       requests[id].days,
                                                       currentChartCurrency))
    /\ UNCHANGED <<chartFile, appc, localPriceRows, currentChartDays, currentChartCurrency,
                   chartRequestId, notChart>>

ChartNext ==
    \/ InitApp
    \/ SetupChartControls
    \/ ClickTimeframe
    \/ ClickCurrency
    \/ ChartResponse
    \/ ChartFileResponse

SpecChart == ChartInit /\ [][ChartNext]_vars

-----------------------------------------------------------------------------
(* The update script: main of part_001 and of part_002                      *)

\* the days after 2010-01-01 the price API has points for
MaxDays == 3

\* the dates of the points of a response: 2010-01-01, the default lastDate,
\* and the MaxDays days after it
ApiDates == {MkDate(2010, 1, 1 + i) : i \in 0..MaxDays}

\* the price of a point of a response: a number, or no number at all (a point
\* without a price, a text); NoPoint stands for a day without a point
NoPoint == [k |-> "none", m |-> 0, e |-> 0]
EurPrices == {NoPoint, Num(1), Fl(2345, -3), Undefined}
UsdPrices == {NoPoint, Num(2)}

\* the responses: two arrays of points when both requests succeed, and
\* failed when one of them is rejected or not OK
Responses ==
    [ok : {TRUE}, eur : [ApiDates -> EurPrices],
     usd : {[d \in ApiDates |-> IF d = missing THEN NoPoint ELSE Num(2)] :
               missing \in ApiDates \cup {BadDate}}]
    \cup {[ok |-> FALSE, eur |-> [d \in ApiDates |-> NoPoint],
           usd |-> [d \in ApiDates |-> NoPoint]]}

\* Number(price) of pickDailyClose: undefined and a text that is no number
\* give NaN, null gives 0
NumberOfPrice(price) ==
    IF price.k = "undef" THEN NaN
    ELSE IF price.k = "null" THEN Zero
    ELSE price

\* part_001 line 228: the header main writes
DbHeader ==
    <<"date", "close_eur", "close_usd", "sma50d_eur", "sma200d_eur", "sma200w_eur",
      "sma50d_usd", "sma200d_usd", "sma200w_usd", "powerlaw_q01_eur", "powerlaw_q50_eur",
      "powerlaw_q99_eur", "powerlaw_q01_usd", "powerlaw_q50_usd", "powerlaw_q99_usd">>

\* part_001 lines 183-197: the dates of both maps, sorted, after lastDate, with
\* a price in both maps, as the rows parsed from the lines
\* `${date},${eur.toFixed(2)},${usd.toFixed(2)}`
NewDates(response, last) ==
    {d \in ApiDates : /\ DateStringLess(last, d)
                      /\ response.eur[d] # NoPoint
                      /\ response.usd[d] # NoPoint}

ParsedNewRow(response, d) ==
    [date |-> DateCell(d),
     closeEur |-> NumberOf(WrittenCell(ToFixed2(NumberOfPrice(response.eur[d])))),
     closeUsd |-> NumberOf(WrittenCell(ToFixed2(NumberOfPrice(response.usd[d]))))]

RECURSIVE RowsOfDates(_, _)
RowsOfDates(response, ds) ==
    IF ds = {} THEN <<>>
    ELSE LET d == CHOOSE x \in ds : \A y \in ds : ~DateStringLess(y, x)
         IN  <<ParsedNewRow(response, d)>> \o RowsOfDates(response, ds \ {d})

\* part_001 line 199: [...existing, ...parsedNewRows].sort by date; the dates
\* of the new rows are later than every date of existing kept in file order
RECURSIVE SortRows(_)
SortRows(rs) ==
    IF Len(rs) = 0 THEN <<>>
    ELSE LET sorted == SortRows(SubSeq(rs, 1, Len(rs) - 1))
             row == rs[Len(rs)]
             k == Cardinality({i \in 1..Len(sorted) :
                                  ~DateStringLess(row.date.date, sorted[i].date.date)})
         IN  SubSeq(sorted, 1, k) \o <<row>> \o SubSeq(sorted, k + 1, Len(sorted))

\* part_001 lines 229-243: the line of a row; its indicator cells are computed
\* from the merged rows and are read by no step of the script
SerializedRow(row) ==
    <<row.date, WrittenCell(ToFixed2(row.closeEur)), WrittenCell(ToFixed2(row.closeUsd))>>

\* part_001 lines 245-248: the file written; the header of part_002 (line
\* 112) ends after the moving averages
Written(mergedRows) ==
    [status |-> "ok",
     header |-> IF script = "part_001" THEN DbHeader ELSE SubSeq(DbHeader, 1, 9),
     lines |-> [i \in 1..Len(mergedRows) |-> SerializedRow(mergedRows[i])]]

DbInit ==
    /\ script \in {"part_001", "part_002"}
    /\ db = [status |-> "missing", header |-> <<>>, lines |-> <<>>]
    /\ upc = "idle"
    /\ existing = <<>>
    /\ lastDate = BadDate
    /\ EarlyIdle
    /\ ReadIdle
    /\ PriceIdle
    /\ ChartIdle
    /\ UiIdle

\* part_001 lines 164-175, part_002 lines 69-76: main reads the file and sends
\* the two requests
StartRun ==
    /\ upc = "idle"
    /\ existing' = loadExistingRows(db)
    /\ lastDate' = IF Len(loadExistingRows(db)) > 0
                   THEN loadExistingRows(db)[Len(loadExistingRows(db))].date.date
                   ELSE MkDate(2010, 1, 1)
    /\ upc' = "requested"
    /\ UNCHANGED <<script, db, notDb>>

\* part_001 lines 176-250: a failed request leaves the points empty; no merged
\* row ends the run, else the file is written again from the merged rows
MergedWritten(response) ==
    LET newRows == IF response.ok THEN RowsOfDates(response, NewDates(response, lastDate))
                   ELSE <<>>
        mergedRows == SortRows(existing \o newRows)
    IN  db' = IF Len(mergedRows) = 0 THEN db ELSE Written(mergedRows)

\* part_002 lines 73-128: a failed request ends the run with the error, no
\* new row ends the run, else the file is written again from the merged rows
AppendedWritten(response) ==
    LET newRows == IF response.ok THEN RowsOfDates(response, NewDates(response, lastDate))
                   ELSE <<>>
    IN  db' = IF Len(newRows) = 0 THEN db ELSE Written(SortRows(existing \o newRows))

FinishRun ==
    /\ upc = "requested"
    /\ \E response \in Responses :
          IF script = "part_001" THEN MergedWritten(response) ELSE AppendedWritten(response)
    /\ upc' = "idle"
    /\ UNCHANGED <<script, existing, lastDate, notDb>>

DbNext == StartRun \/ FinishRun

SpecDb == DbInit /\ [][DbNext]_vars

-----------------------------------------------------------------------------
(* extendSeriesWithProjection: the chart series continued day by day up to  *)
(* the projection date                                                      *)

\* the most days between the last point and the projection date
MaxProjected == 3

\* the last day of the series given to the call
LastSeriesDate == MkDate(2010, 2, 27)

\* the dates of the year of the series
SeriesYear == {date \in [y : {LastSeriesDate.y}, m : 1..12, d : 1..31] : WellFormed(date)}

\* new Date(ts).toISOString().slice(0, 10), for a time of the year of the series
toISODate(ts) == CHOOSE date \in SeriesYear : EpochDay(date) = WFloorDivDay(ts)[3]

RECURSIVE DaysAfter(_, _)
DaysAfter(date, n) == IF n = 0 THEN date ELSE DaysAfter(NextDay(date), n - 1)

\* a point of a chart series: a time in milliseconds (or NaN) and a price
MarketPoint(timestamp, price) ==
    [timestamp |-> timestamp, price |-> price,
     sma50d |-> Null, sma200d |-> Null, sma200w |-> Null,
     powerLawQ01 |-> Num(1), powerLawQ50 |-> Num(2), powerLawQ99 |-> Num(3)]

\* the series given to the call: none, series ending at midnight or one hour
\* after midnight of the last day, and a series whose last time is NaN
GivenSeries ==
    {<<>>,
     <<MarketPoint(DateParse(LastSeriesDate), Num(5))>>,
     <<MarketPoint(DateParse(PrevDay(LastSeriesDate)), Num(4)),
       MarketPoint(Index(WAddInt(DateParse(LastSeriesDate).w, 3600000)), Num(5))>>,
     <<MarketPoint(DateParse(LastSeriesDate), Num(5)), MarketPoint(NaNIndex, Num(6))>>}

\* the projection dates: none, no date, the day before the last point, its
\* day and the days after it
ProjectionDates ==
    {EmptyString, BadDate, PrevDay(LastSeriesDate)}
        \cup {DaysAfter(LastSeriesDate, n) : n \in 0..MaxProjected}

\* what fitSingleTermPowerLaw returns (script.js lines 603-626): null, or an
\* object of two finite numbers
FittedParams == {NoObject("null"), Params(Num(2), Num(1), Undefined, Undefined),
                 Params(Num(1), Num(MaxIntPow), Undefined, Undefined)}

ProjInit ==
    /\ projectionDate \in ProjectionDates
    /\ projectionParams \in [powerLawQ01 : FittedParams, powerLawQ50 : FittedParams,
                             powerLawQ99 : FittedParams]
    /\ priceSeries \in GivenSeries
    /\ jpc = "called"
    /\ projected = NoSeries
    /\ EarlyIdle
    /\ ReadIdle
    /\ PriceIdle
    /\ ChartIdle
    /\ DbIdle
    /\ ToggleIdle

\* script.js lines 359-369: the point pushed for the time ts
ProjectedPoint(ts) ==
    [timestamp |-> Index(ts), price |-> Null,
     sma50d |-> Null, sma200d |-> Null, sma200w |-> Null,
     powerLawQ01 |-> predictSingleTermPowerLaw(toISODate(ts), projectionParams.powerLawQ01),
     powerLawQ50 |-> predictSingleTermPowerLaw(toISODate(ts), projectionParams.powerLawQ50),
     powerLawQ99 |-> predictSingleTermPowerLaw(toISODate(ts), projectionParams.powerLawQ99),
     isProjected |-> TRUE]

\* script.js lines 357-370: for (let ts = ...; ts <= targetTimestamp; ts += dayMs)
RECURSIVE ProjectionLoop(_, _, _)
ProjectionLoop(points, ts, targetTimestamp) ==
    IF WLess(targetTimestamp, ts) THEN points
    ELSE ProjectionLoop(Append(points, ProjectedPoint(ts)), WAddInt(ts, MS_PER_DAY),
                        targetTimestamp)

\* script.js lines 341-373; the result is the array given or a new array
extendSeriesWithProjection(given) ==
    LET targetTimestamp == DateParse(projectionDate)
        lastTimestamp == given[Len(given)].timestamp
        same == [array |-> "given", points |-> given]
    IN  IF projectionDate = EmptyString THEN same
        ELSE IF Len(given) = 0 THEN same
        ELSE IF targetTimestamp.nan THEN same
        ELSE IF lastTimestamp.nan \/ ~WLess(lastTimestamp.w, targetTimestamp.w) THEN same
        ELSE [array |-> "new",
              points |-> ProjectionLoop(given, WAddInt(lastTimestamp.w, MS_PER_DAY),
                                        targetTimestamp.w)]

ExtendSeries ==
    /\ jpc = "called"
    /\ projected' = extendSeriesWithProjection(priceSeries)
    /\ jpc' = "done"
    /\ UNCHANGED <<projectionDate, projectionParams, priceSeries, notProj>>

ProjNext == ExtendSeries

SpecProject == ProjInit /\ [][ProjNext]_vars

-----------------------------------------------------------------------------
(* The indicator buttons and the chart they switch                          *)

\* script.js lines 31-35
POWER_LAW_SERIES == <<"powerLawQ01", "powerLawQ50", "powerLawQ99">>

\* the data-ma attributes of the buttons: the keys of maVisibility, a key
\* that is none of them and no attribute
ButtonKeys == {"sma50d", "sma200d", "sma200w", "powerlaw", "other", "none"}

\* script.js lines 695-700
datasetIndexMap ==
    [sma50d |-> {1}, sma200d |-> {2}, sma200w |-> {3}, powerlaw |-> {4, 5, 6}]

ToggleInit ==
    /\ maVisibility = InitialVisibility
    /\ btcChart = NoBtcChart
    /\ fittedSeries \in SUBSET {"powerLawQ01", "powerLawQ50", "powerLawQ99"}
    /\ EarlyIdle
    /\ ReadIdle
    /\ PriceIdle
    /\ ChartIdle
    /\ DbIdle
    /\ ProjIdle

\* script.js lines 570-583: one formula for every series that has parameters
buildPowerLawFormulas == SelectSeq(POWER_LAW_SERIES, LAMBDA key : key \in fittedSeries)

\* script.js lines 408-410 and 418-527: the chart built from maVisibility; the
\* price dataset (index 0) has no hidden flag
BuiltChart ==
    [exists |-> TRUE,
     hidden |-> [index \in 0..6 |->
                    IF index = 0 THEN FALSE
                    ELSE IF index = 1 THEN ~maVisibility.sma50d
                    ELSE IF index = 2 THEN ~maVisibility.sma200d
                    ELSE IF index = 3 THEN ~maVisibility.sma200w
                    ELSE ~maVisibility.powerlaw],
     formulas |-> IF maVisibility.powerlaw THEN buildPowerLawFormulas ELSE <<>>]

\* script.js lines 384-568: updateChart destroys the chart and builds a new one
UpdateChart ==
    /\ btcChart' = BuiltChart
    /\ UNCHANGED <<maVisibility, fittedSeries, notToggle>>

\* script.js lines 692-710: the datasets of the key take the new flag
Switched(built, maKey, visible) ==
    IF ~built.exists THEN built
    ELSE [built EXCEPT !.hidden = [index \in 0..6 |->
                                      IF index \in datasetIndexMap[maKey] THEN ~visible
                                      ELSE built.hidden[index]]]

\* script.js lines 685-711: a click on the button of maKey
ClickIndicator ==
    \E maKey \in ButtonKeys :
       /\ maKey \in DOMAIN maVisibility
       /\ maVisibility' = [maVisibility EXCEPT ![maKey] = ~maVisibility[maKey]]
       /\ btcChart' = Switched(btcChart, maKey, ~maVisibility[maKey])
       /\ UNCHANGED <<fittedSeries, notToggle>>

ToggleNext == UpdateChart \/ ClickIndicator

SpecToggle == ToggleInit /\ [][ToggleNext]_vars

-----------------------------------------------------------------------------
(* The calls that are given arrays by their caller: the fitters and          *)
(* attachCalculatedMovingAverages                                           *)

CallsInit == FitInit \/ AttachInit

CallsNext == FitNext \/ AttachNext

SpecCalls == CallsInit /\ [][CallsNext]_vars

-----------------------------------------------------------------------------
(* The whole model: any one of the parts above, from its own first state.  *)

Init ==
    DayInit \/ FitInit \/ PredInit \/ AvgInit \/ AttachInit \/ SmaInit \/ ReadInit
    \/ PriceInit \/ ChartInit \/ DbInit \/ ProjInit \/ ToggleInit

Next ==
    DayNext \/ FitNext \/ PredNext \/ AvgNext \/ AttachNext \/ ReadNext
    \/ PriceNext \/ ChartNext \/ DbNext \/ ProjNext \/ ToggleNext

Spec == Init /\ [][Next]_vars

-----------------------------------------------------------------------------
(* Properties of the fitters (SpecFit)                                      *)

\* C1: with fewer than 4 pairs whose day index and price are both finite (an
\* empty input included), fitPowerLawQuantileRegression never enters its
\* optimizer loop, runs no iteration and returns {a: NaN, b: NaN, c: NaN, d: NaN}.
C1_FewSamplesSentinel ==
    (fn = "fitPowerLawQuantileRegression"
        /\ Cardinality(ValidPairs(fn, dates, prices)) < 4) =>
        /\ pc # "loop"
        /\ trace = <<>>
        /\ pc = "done" => result = PLSentinel

\* C1's case: 4 pairs of which one is not usable, and the call has returned
C1_Witness ==
    /\ fn = "fitPowerLawQuantileRegression" /\ pc = "done" /\ run = "first"
    /\ Len(dates) = 4 /\ Cardinality(ValidPairs(fn, dates, prices)) = 3
    /\ result = PLSentinel /\ step = 0

\* C2 as stated: fitLogLogQuantileRegression called with fewer than 4 pairs
\* returns alpha = NaN and beta = NaN.
C2_FewSamplesNaN ==
    (fn = "fitLogLogQuantileRegression" /\ pc = "done" /\ Len(dates) < 4) =>
        result.alpha = NaN /\ result.beta = NaN

\* C6 as stated: for both fitters, when the input has at least 4 valid pairs
\* the fit equals the fit of the input without its offending pairs (the
\* second call is made on that cleaned input) and is not the NaN sentinel.
C6_OffendersExcluded ==
    (run = "cleaned" /\ pc = "done" /\ Len(dates) >= 4) =>
        /\ result = first.result
        /\ IF fn = "fitPowerLawQuantileRegression" THEN result # PLSentinel
           ELSE IsFinite(result.alpha) /\ IsFinite(result.beta)

\* C7: every result of fitPowerLawQuantileRegression other than the NaN
\* sentinel has b <= d, for each tau and each iteration count from 0 on.
C7_CanonicalOrder ==
    (fn = "fitPowerLawQuantileRegression" /\ pc = "done" /\ result # PLSentinel) =>
        LessEq(result.b, result.d)

\* C7's case: the optimizer ended with b > d and the returned result is swapped
C7_Witness ==
    /\ fn = "fitPowerLawQuantileRegression" /\ pc = "done" /\ result # PLSentinel
    /\ Greater(par.b, par.d)
    /\ result.b = par.d /\ result.d = par.b

\* C8 as stated: every result of fitPowerLawQuantileRegression other than the
\* NaN sentinel has a > 0, c > 0, a and c in [epsilon, 10 * max observed
\* price] and b and d in [0.01, 12].
C8_ResultInRange ==
    (fn = "fitPowerLawQuantileRegression" /\ pc = "done" /\ result # PLSentinel) =>
        LET observed == Keep(prices, ValidPairs(fn, dates, prices), 1)
            top == Mul(MaxOf(observed), Num(10))
        IN  /\ Greater(result.a, Zero) /\ Greater(result.c, Zero)
            /\ GreaterEq(result.a, Epsilon) /\ LessEq(result.a, top)
            /\ GreaterEq(result.c, Epsilon) /\ LessEq(result.c, top)
            /\ GreaterEq(result.b, Fl(1, -2)) /\ LessEq(result.b, Num(12))
            /\ GreaterEq(result.d, Fl(1, -2)) /\ LessEq(result.d, Num(12))

\* C9: a second call of either fitter on the same dates, prices, tau and
\* options goes through the same parameters and moments at every iteration
\* as the first call and returns the same result, whatever the first call
\* left behind.
C9_Deterministic ==
    run = "again" =>
        /\ Len(trace) <= Len(first.trace)
        /\ \A i \in 1..Len(trace) : trace[i] = first.trace[i]
        /\ pc = "done" => (result = first.result /\ trace = first.trace)

\* C9's case: the second call has iterated and returned a finite result
C9_Witness ==
    /\ run = "again" /\ pc = "done" /\ fn = "fitPowerLawQuantileRegression"
    /\ Len(trace) >= 2
    /\ IsFinite(result.a) /\ result = first.result

-----------------------------------------------------------------------------
(* Properties of the predictors (SpecPredict)                               *)

\* C3: predictPowerLaw returns null when the record is null or undefined or
\* one of a, b, c, d is NaN, an infinity or missing; predictSingleTermPowerLaw
\* returns null when the record is null or a or b is not finite.
C3_NullForBadParams ==
    /\ (pfn = "predictPowerLaw" /\ ppc = "returned"
            /\ (pargs.params.k # "obj"
                    \/ \E f \in {"a", "b", "c", "d"} : ~IsFinite(pargs.params[f])))
        => pout = Null
    /\ (pfn = "predictSingleTermPowerLaw" /\ ppc = "returned"
            /\ (pargs.params.k # "obj"
                    \/ \E f \in {"a", "b"} : ~IsFinite(pargs.params[f])))
        => pout = Null

\* C3's case: a well-formed date, only c is NaN, and the call has returned null
C3_Witness ==
    /\ pfn = "predictPowerLaw" /\ ppc = "returned"
    /\ pargs.date = MkDate(2010, 7, 18)
    /\ pargs.params = Params(Fl(15, -1), Fl(15, -1), NaN, Fl(15, -1))
    /\ pout = Null

\* C4 as stated: for a date whose day index is not finite and a record with
\* a, b, c, d all finite, predictPowerLaw returns null or undefined.
C4_NullForBadDate ==
    (/\ pfn = "predictPowerLaw" /\ ppc = "returned"
     /\ ~IsFinite(IndexToNum(convertToBitcoinDayIndex(pargs.date)))
     /\ pargs.params.k = "obj"
     /\ \A f \in {"a", "b", "c", "d"} : IsFinite(pargs.params[f]))
        => pout \in {Null, Undefined}

\* C5 as stated: the update script's predictPowerLaw(date, alpha, beta)
\* returns null when alpha or beta is not finite, and the cell written from
\* it never holds the text of a non-finite number.
C5_NoNonFiniteCell ==
    (pfn = "serializeCell" /\ ppc = "returned") =>
        /\ (~IsFinite(pargs.alpha) \/ ~IsFinite(pargs.beta)) => pout = Null
        /\ pcell.kind \notin {"NaN", "Infinity", "-Infinity"}

-----------------------------------------------------------------------------
(* Properties of the day index (SpecDay)                                    *)

\* C10 as stated: for every well-formed date both mappers give
\* max(1, whole days from 2009-01-03 to the date + 1).
C10_DayIndex ==
    LET expected == Index(WInt(IF wholeDays + 1 > 1 THEN wholeDays + 1 ELSE 1))
    IN  /\ convertToBitcoinDayIndex(cal) = expected
        /\ daySinceGenesis(cal) = expected


\* C11 as stated: the day index never decreases with the date, for both
\* mappers: every step of the walk to a later date leaves each day index equal
\* or greater, every step to an earlier date leaves it equal or smaller.
C11_Monotonic ==
    [][LET IndexLessEq(i, j) == ~i.nan /\ ~j.nan /\ ~WLess(j.w, i.w)
       IN  IF wholeDays' > wholeDays
           THEN /\ IndexLessEq(convertToBitcoinDayIndex(cal), convertToBitcoinDayIndex(cal'))
                /\ IndexLessEq(daySinceGenesis(cal), daySinceGenesis(cal'))
           ELSE /\ IndexLessEq(convertToBitcoinDayIndex(cal'), convertToBitcoinDayIndex(cal))
                /\ IndexLessEq(daySinceGenesis(cal'), daySinceGenesis(cal))]_vars

-----------------------------------------------------------------------------
(* Properties of the moving averages (SpecAverage)                          *)

\* C12 as stated: rollingAverage(values, w) has the length of values; entry i
\* (0-based) is null for i < w - 1 and is the arithmetic mean of
\* values[i-w+1 .. i] for i >= w - 1.
C12_WindowMean ==
    apc = "returned" =>
        /\ Len(averages) = Len(values)
        /\ \A i \in 1..Len(values) :
              averages[i] = IF i < windowSize THEN Null
                            ELSE Div(SumSeq(SubSeq(values, i - windowSize + 1, i)),
                                     Num(windowSize))

-----------------------------------------------------------------------------
(* Properties of the series assembly (SpecAttach)                           *)

\* C13: attachCalculatedMovingAverages fills a cell only if it is absent: for
\* every row and every indicator column, a stored value that is not null (a
\* stored 0 included) is the value of the output row, so that a computed value
\* appears only where the stored value is null; the date and the closes of
\* every row are unchanged.
C13_FillIfAbsent ==
    atpc = "returned" =>
        /\ Len(attached) = Len(rows)
        /\ \A j \in 1..Len(rows) :
              \E i \in 1..Len(attached) :
                  /\ attached[i].date = rows[j].date
                  /\ attached[i].closeEur = rows[j].closeEur
                  /\ attached[i].closeUsd = rows[j].closeUsd
                  /\ \A f \in IndicatorColumns :
                        rows[j][f] # Null => attached[i][f] = rows[j][f]

\* C13's case: a row with a stored 0 in one column and nothing in another: the
\* 0 is kept and the other cell is computed
C13_Witness ==
    /\ atpc = "returned"
    /\ \E j \in 1..Len(rows), i \in 1..Len(attached) :
          /\ attached[i].date = rows[j].date
          /\ rows[j].sma200wEur = Zero
          /\ attached[i].sma200wEur = Zero
          /\ rows[j].sma50dEur = Null
          /\ IsFinite(attached[i].sma50dEur)

\* C16: for a row with no stored factor, the power-law factor of the output
\* row is (close - q01) / (q99 - q01) when q01 and q99 are both finite and
\* q99 # q01, and null otherwise, so that it is never the result of a division
\* by zero and never NaN; the percentage calculatePowerLaw shows is the factor
\* of its latest model row times 100, clamped into [0, 100].
C16_FactorAndPercent ==
    atpc = "returned" =>
        /\ \A j \in 1..Len(rows), i \in 1..Len(attached),
              c \in {[close |-> "closeEur", q01 |-> "powerLawQ01Eur",
                      q99 |-> "powerLawQ99Eur", factor |-> "powerLawFactorEur"],
                     [close |-> "closeUsd", q01 |-> "powerLawQ01Usd",
                      q99 |-> "powerLawQ99Usd", factor |-> "powerLawFactorUsd"]} :
              (attached[i].date = rows[j].date /\ rows[j][c.factor] = Null) =>
                  /\ attached[i][c.factor] =
                        IF /\ IsFinite(attached[i][c.q01])
                           /\ IsFinite(attached[i][c.q99])
                           /\ attached[i][c.q99] # attached[i][c.q01]
                        THEN Div(Sub(attached[i][c.close], attached[i][c.q01]),
                                 Sub(attached[i][c.q99], attached[i][c.q01]))
                        ELSE Null
                  /\ attached[i][c.factor].k \in {"fin", "null"}
        /\ kpi.state = "shown" =>
              \E i \in 1..Len(attached) :
                  /\ attached[i].date = kpi.date
                  /\ LET hundredfold ==
                             Mul(attached[i][IF kpiCurrency = "usd" THEN "powerLawFactorUsd"
                                             ELSE "powerLawFactorEur"], Num(100))
                     IN  kpi.percent = IF Less(hundredfold, Zero) THEN Zero
                                       ELSE IF Greater(hundredfold, Num(100)) THEN Num(100)
                                       ELSE hundredfold

\* C16's case: the latest model row had no stored factor, its factor was
\* computed from its bands and is above 1, and the percentage shown is 100
C16_Witness ==
    /\ atpc = "returned"
    /\ kpiCurrency = "eur"
    /\ kpi.state = "shown"
    /\ kpi.percent = Num(100)
    /\ \E j \in 1..Len(rows), i \in 1..Len(attached) :
          /\ rows[j].date = kpi.date
          /\ rows[j].powerLawFactorEur = Null
          /\ attached[i].date = kpi.date
          /\ Greater(attached[i].powerLawFactorEur, Num(1))

-----------------------------------------------------------------------------
(* Properties of the calls given arrays (SpecCalls)                         *)

\* C20: a fit and the series assembly leave their inputs unchanged: no step of
\* a call of fitPowerLawQuantileRegression or fitLogLogQuantileRegression
\* changes the dates or the prices it was given (only a new call on other
\* arrays does), and no step of attachCalculatedMovingAverages changes the
\* rows it was given, neither their order nor their cells.
C20_InputsUnchanged ==
    [][/\ run' = run => (dates' = dates /\ prices' = prices)
       /\ rows' = rows]_vars

\* C20's case: attachCalculatedMovingAverages has returned the rows in another
\* order than the one it was given
C20_Witness ==
    /\ atpc = "returned"
    /\ Len(rows) >= 2
    /\ attached[1].date # rows[1].date
    /\ attached[Len(attached)].date = rows[1].date

-----------------------------------------------------------------------------
(* Properties of the readers of the price file (SpecRead)                   *)

\* the texts that are a numeric zero
NumericZeroTexts == {"0", "0.00"}
\* the texts that are no number
NonNumericTexts == {" ", "abc"}

\* C14 as stated: when the dashboard reads an indicator cell, a missing
\* column, a missing cell and an empty cell give null and never 0; 0 comes only
\* from a cell whose text is a numeric zero; a cell that is no number gives
\* null.
C14_NullIsNotZero ==
    (reader = "fetchLocalCsvPrices" /\ rdpc = "returned") =>
        \A j \in 1..Len(table.lines), k \in 1..Len(validRows) :
            validRows[k].date = readColumn(table.header, table.lines[j], "date").date =>
                \A f \in IndicatorColumns :
                    LET cell == readColumn(table.header, table.lines[j], CsvName(f))
                    IN  /\ (cell = NoText \/ cell.s = "") => validRows[k][f] = Null
                        /\ validRows[k][f] = Zero => cell.s \in NumericZeroTexts
                        /\ cell.s \in NonNumericTexts => validRows[k][f] = Null

\* C15 as stated: every reader of the price file finds its columns by their
\* header names: the file with its columns moved (header and cells together) or
\* with one more column of an unknown name gives the same parsed rows.
C15_ColumnsByName ==
    rdpc = "both" => readRowsAlt = readRows

-----------------------------------------------------------------------------
(* Properties of the price panel (SpecPrice)                                *)

\* C17: when the price API request of loadBitcoinData fails (no response or a
\* response that is not OK) and the price file gives at least one valid row,
\* the panel shows the EUR and USD closes of the row with the greatest date of
\* the file, whatever the order of its lines, in offline mode; when the file
\* gives no row (not there, not readable, no valid line) the error message is
\* reported instead; nothing is thrown.
C17_PriceFallback ==
    (bpc = "idle" /\ apiOutcome \in {"notOk", "networkError"}) =>
        LET local == LocalRowsOf([priceFile EXCEPT !.status = fileOutcome])
        IN  IF local # <<>>
            THEN /\ \E k \in 1..Len(local) :
                       /\ \A j \in 1..Len(local) : ~DateStringLess(local[k].date, local[j].date)
                       /\ panel.eur = formatCurrency(local[k].closeEur, "EUR")
                       /\ panel.usd = formatCurrency(local[k].closeUsd, "USD")
                 /\ panel.eur.amount.kind = "decimal"
                 /\ panel.usd.amount.kind = "decimal"
                 /\ panel.change = "Offline-Modus (lokale CSV)"
                 /\ reported = "none"
            ELSE reported = "Preisdaten konnten nicht geladen werden"

\* C17's case: the request failed and the file has three lines, the first of
\* them the second day and the last of them, the first day, without its EUR
\* close: the panel shows the close of the third day
C17_Witness ==
    /\ bpc = "idle"
    /\ apiOutcome = "networkError"
    /\ fileOutcome = "ok"
    /\ priceFile = DatedFile(3, "rotated", 1)
    /\ panel.eur = formatCurrency(Num(3), "EUR")
    /\ panel.change = "Offline-Modus (lokale CSV)"

-----------------------------------------------------------------------------
(* Properties of the chart (SpecChart)                                      *)

\* the rows the catch block of a call gives to buildFallbackChartSeries:
\* localPriceRows when it has rows, else what the call's own fetch gave
FallbackRows(r) ==
    IF Len(localPriceRows) > 0 THEN localPriceRows
    ELSE FetchedRows(r.fileOutcome)

\* the number of rows asked for: all of them for 'max', else min(days, rowCount)
RowsAsked(days, rowCount) == IF days.max THEN rowCount ELSE Min2(days.n, rowCount)

\* the series is made of the last k of the rows: ascending dates, the
\* timestamp and a close of each row
IsLastRows(series, rs, k) ==
    /\ Len(series) = k
    /\ \A i \in 1..k :
          LET row == rs[Len(rs) - k + i]
          IN  /\ series[i].timestamp = DateParse(row.date)
              /\ series[i].price \in {row.closeEur, row.closeUsd}
    /\ \A i \in 1..(k - 1) : WLess(series[i].timestamp.w, series[i + 1].timestamp.w)

\* what C18 says of a call whose request failed and that was not dropped: with
\* local rows the chart is drawn from the last rows asked for, in ascending
\* date order, and without local rows nothing is drawn and the error is
\* reported
FallbackDone(id) ==
    LET r == requests[id]
        sorted == SortByDate(FallbackRows(r))
    IN  /\ r.result = (IF Len(sorted) = 0 THEN "error" ELSE "fallback")
        /\ r.result = "error" => chartReport = "Chart konnte nicht geladen werden"
        /\ (chart.by = id /\ chart.source = "local") =>
               IsLastRows(chart.series, sorted, RowsAsked(r.days, Len(sorted)))
        /\ chart.by = id => r.result = "fallback"

-----------------------------------------------------------------------------
(* Properties of the update script (SpecDb)                                 *)

\* the text of a close: a decimal number
IsCloseText(cell) == cell.s \in {"decimal", "exponential"}

\* the date of the last line of a file, or no date
LastDateOf(t) == IF Len(t.lines) = 0 THEN BadDate ELSE t.lines[Len(t.lines)][1].date

\* C19 as stated: the update of the price DB only appends. Starting from an
\* empty DB, after any runs with any responses of the API: the dates of the
\* lines are strictly increasing; every line written by an earlier run is still
\* there with its date and its EUR and USD closes; the lines a run adds have a
\* date after the last date present before the run, and an EUR and a USD close.
C19_AppendOnly ==
    [][/\ \A i \in 1..(Len(db'.lines) - 1) :
             DateStringLess(db'.lines[i][1].date, db'.lines[i + 1][1].date)
       /\ \A i \in 1..Len(db.lines) : \E j \in 1..Len(db'.lines) : db'.lines[j] = db.lines[i]
       /\ \A j \in 1..Len(db'.lines) :
             (\A i \in 1..Len(db.lines) : db.lines[i][1] # db'.lines[j][1]) =>
                 /\ Len(db.lines) > 0 => DateStringLess(LastDateOf(db), db'.lines[j][1].date)
                 /\ IsCloseText(db'.lines[j][2])
                 /\ IsCloseText(db'.lines[j][3])]_vars

-----------------------------------------------------------------------------
(* Properties of the optimizer of fitPowerLawQuantileRegression (SpecFit)   *)

AllFinite(p) == IsFinite(p.a) /\ IsFinite(p.b) /\ IsFinite(p.c) /\ IsFinite(p.d)

\* the parameters an iteration started from, and what its update step made
\* of them
ParBefore(s) == IF s = 1 THEN PLInitial(ctx.samples) ELSE trace[s - 1].par
RawUpdate(s) == PLUpdate(ParBefore(s), trace[s].mom, s)

\* the fallback the claim names for each parameter, then the clamp
GuardedAC(raw) ==
    MathMin(MathMax(IF IsFinite(raw) THEN raw ELSE Mul(Fl(1, -1), ctx.minPrice), Epsilon),
            Mul(ctx.maxPrice, Num(10)))
GuardedBD(raw, fallback) ==
    MathMin(MathMax(IF IsFinite(raw) THEN raw ELSE fallback, Fl(1, -2)), Num(12))

MomentsOf(mo, x) ==
    IF x = "a" THEN <<mo.mA, mo.vA>> ELSE IF x = "b" THEN <<mo.mB, mo.vB>>
    ELSE IF x = "c" THEN <<mo.mC, mo.vC>> ELSE <<mo.mD, mo.vD>>

\* iteration t updated parameter x from its gradient: its moments are finite
\* and so is the updated value
UpdatedFromGradient(t, x) ==
    /\ IsFinite(MomentsOf(trace[t].mom, x)[1])
    /\ IsFinite(MomentsOf(trace[t].mom, x)[2])
    /\ IsFinite(RawUpdate(t)[x])

\* C22 as stated: after an iteration of fitPowerLawQuantileRegression in
\* which a parameter was not finite and was replaced by its fallback, a later
\* iteration updates that parameter from the gradients again: it is not
\* pinned for all remaining iterations, and its moments do not stay non-finite.
C22_Recoverable ==
    (fn = "fitPowerLawQuantileRegression" /\ pc = "done") =>
        \A s \in 1..(step - 1) : \A x \in {"a", "b", "c", "d"} :
            ~IsFinite(RawUpdate(s)[x]) =>
                \E t \in (s + 1)..step : UpdatedFromGradient(t, x)

\* the state before an iteration of the optimizer of fitter f
BeforeIteration(f) == fn = f /\ pc = "loop" /\ step < iterations

\* the residual of a sample of fitPowerLawQuantileRegression against par
PLResidual(sample) ==
    Sub(sample.value,
        Add(Mul(par.a, Pow(MathMax(sample.day, Epsilon), par.b)),
            Mul(par.c, Pow(MathMax(sample.day, Epsilon), par.d))))

\* what a sample adds to the four gradient sums when the derivative of the
\* loss with respect to the prediction is dLoss
PLContribution(sample, dLoss) ==
    [gradA |-> Mul(dLoss, Pow(MathMax(sample.day, Epsilon), par.b)),
     gradB |-> Mul(Mul(Mul(dLoss, par.a), Pow(MathMax(sample.day, Epsilon), par.b)),
                   Ln(MathMax(sample.day, Epsilon))),
     gradC |-> Mul(dLoss, Pow(MathMax(sample.day, Epsilon), par.d)),
     gradD |-> Mul(Mul(Mul(dLoss, par.c), Pow(MathMax(sample.day, Epsilon), par.d)),
                   Ln(MathMax(sample.day, Epsilon)))]

\* every sample of fitPowerLawQuantileRegression contributes with -tau when
\* its residual is >= 0 and with 1 - tau when it is < 0
PLPinball ==
    BeforeIteration("fitPowerLawQuantileRegression") =>
        \A i \in 1..Len(ctx.samples) :
            /\ GreaterEq(PLResidual(ctx.samples[i]), Zero) =>
                   PLSampleGradient(ctx.samples[i], par, tau)
                       = PLContribution(ctx.samples[i], Neg(tau))
            /\ Less(PLResidual(ctx.samples[i]), Zero) =>
                   PLSampleGradient(ctx.samples[i], par, tau)
                       = PLContribution(ctx.samples[i], Neg(Sub(tau, Num(1))))

\* (k - N * tau) / N, which is k / N - tau
SignGradient(k, n) == Div(Sub(Num(k), Mul(Num(n), tau)), Num(n))

-----------------------------------------------------------------------------
(* Properties of the result of fitLogLogQuantileRegression (SpecFit)        *)

\* the number of positions of seq that satisfy Test
CountOf(seq, Test(_)) == Cardinality({i \in 1..Len(seq) : Test(seq[i])})

\* clamp(ceil(tau * n) - 1, 0, n - 1)
QuantileIndex(n) == Min2(Max2(CeilInt(Mul(tau, Num(n))) - 1, 0), n - 1)

\* v is the element at index k (from 0) of the ascending order of seq
IsOrderStatistic(seq, k, v) ==
    /\ \E j \in 1..Len(seq) : seq[j] = v
    /\ LET Below(r) == Less(r, v)
           NotAbove(r) == LessEq(r, v)
       IN  CountOf(seq, Below) <= k /\ CountOf(seq, NotAbove) >= k + 1

\* the call of fitLogLogQuantileRegression has returned from n >= 1 samples
LLReturned ==
    fn = "fitLogLogQuantileRegression" /\ pc = "done" /\ Len(ctx.samples) >= 1

\* the optimizer's alpha plus the element at the quantile index of the
\* ascending residuals, and the optimizer's beta
ShiftedByQuantile ==
    /\ \E v \in {LLResiduals(ctx.samples, par)[j] : j \in 1..Len(ctx.samples)} :
          /\ IsOrderStatistic(LLResiduals(ctx.samples, par),
                              QuantileIndex(Len(ctx.samples)), v)
          /\ result.alpha = Add(par.alpha, v)
    /\ result.beta = par.beta

\* against the returned line: a residual of exactly 0, at least k + 1
\* residuals <= 0 and at least N - k residuals >= 0
QuantileOfReturnedLine ==
    LET final == LLResiduals(ctx.samples, result)
        IsZero(r) == r = Zero
        NotAbove(r) == LessEq(r, Zero)
        NotBelow(r) == GreaterEq(r, Zero)
    IN  /\ CountOf(final, IsZero) >= 1
        /\ CountOf(final, NotAbove) >= QuantileIndex(Len(ctx.samples)) + 1
        /\ CountOf(final, NotBelow) >= Len(ctx.samples) - QuantileIndex(Len(ctx.samples))

InterceptShift ==
    At(SortNumbers(LLResiduals(ctx.samples, par)), QuantileIndex(Len(ctx.samples)) + 1)

NoNaNResidual ==
    \A i \in 1..Len(ctx.samples) : LLResiduals(ctx.samples, par)[i] # NaN

-----------------------------------------------------------------------------
(* Properties of the moving averages of the series assembly (SpecSma)       *)

\* the moving-average columns with the closes they average and their window
SmaColumns ==
    {[column |-> "sma50dEur", closes |-> "closeEur", window |-> ShortWindow],
     [column |-> "sma200dEur", closes |-> "closeEur", window |-> MidWindow],
     [column |-> "sma200wEur", closes |-> "closeEur", window |-> LongWindow],
     [column |-> "sma50dUsd", closes |-> "closeUsd", window |-> ShortWindow],
     [column |-> "sma200dUsd", closes |-> "closeUsd", window |-> MidWindow],
     [column |-> "sma200wUsd", closes |-> "closeUsd", window |-> LongWindow]}

\* the row at position i of the output had no stored value in column f
NotStored(i, f) ==
    \A j \in 1..Len(rows) : rows[j].date = attached[i].date => rows[j][f] = Null

\* null before index w - 1, then the mean of the w closes that end at the row
WindowMean(closes, i, w) ==
    IF i < w THEN Null ELSE Div(SumSeq(SubSeq(closes, i - w + 1, i)), Num(w))

\* every computed moving average is the entry of rollingAverage(closes, w)
SameAsRollingAverage ==
    atpc = "returned" =>
        \A c \in SmaColumns : \A i \in 1..Len(attached) :
            NotStored(i, c.column) =>
                attached[i][c.column] = rollingAverage(ColumnOf(attached, c.closes), c.window)[i]

\* C25 as stated: for rows without stored moving averages, after the sort by
\* date, attachCalculatedMovingAverages gives for each currency and window w
\* null at every index < w - 1 and the mean of the w closes at indices
\* i-w+1..i at every index i >= w - 1, the sequence of rollingAverage(closes,
\* w); a row with stored values does not disturb the sums of the later rows.
C25_SmaIsWindowMean ==
    /\ SameAsRollingAverage
    /\ atpc = "returned" =>
           \A c \in SmaColumns : \A i \in 1..Len(attached) :
               NotStored(i, c.column) =>
                   attached[i][c.column] = WindowMean(ColumnOf(attached, c.closes), i, c.window)

-----------------------------------------------------------------------------
(* Properties of the calls of loadChartData (SpecChart)                     *)

\* C26 as stated: whatever the order of the calls of loadChartData and of the
\* ends of their requests and of their reads of the price file, only the call
\* started last draws the chart: a call that a later call has superseded
\* never calls updateChart, on its success path or on its fallback path.
C26_OnlyLatestRenders ==
    [][chart' # chart => chart'.by = chartRequestId]_vars

-----------------------------------------------------------------------------
(* Properties of extendSeriesWithProjection (SpecProject)                   *)

\* the cases in which the series is given back as it is
NothingToProject ==
    \/ projectionDate = EmptyString
    \/ DateParse(projectionDate).nan
    \/ Len(priceSeries) = 0
    \/ priceSeries[Len(priceSeries)].timestamp.nan
    \/ ~WLess(priceSeries[Len(priceSeries)].timestamp.w, DateParse(projectionDate).w)

\* the whole days from the last point to the target
ProjectedDays ==
    WFloorDivDay(WSub(DateParse(projectionDate).w,
                      priceSeries[Len(priceSeries)].timestamp.w))[3]

\* the time k days after the last point
DaysAfterLast(k) ==
    Index(WAddInt(priceSeries[Len(priceSeries)].timestamp.w, k * MS_PER_DAY))

FiniteOrNull(x) == IsFinite(x) \/ x = Null

\* a projected point without its quantile values
IsProjectedPoint(point, k) ==
    /\ point.timestamp = DaysAfterLast(k)
    /\ point.price = Null /\ point.sma50d = Null /\ point.sma200d = Null
    /\ point.sma200w = Null
    /\ point.isProjected

\* the array returned is new and holds the points given and then one
\* projected point for every day up to the target
ExtendedByDays ==
    /\ projected.array = "new"
    /\ Len(projected.points) = Len(priceSeries) + ProjectedDays
    /\ \A i \in 1..Len(priceSeries) : projected.points[i] = priceSeries[i]
    /\ \A k \in 1..ProjectedDays :
          IsProjectedPoint(projected.points[Len(priceSeries) + k], k)

FiniteQuantiles ==
    \A i \in (Len(priceSeries) + 1)..Len(projected.points) :
       /\ FiniteOrNull(projected.points[i].powerLawQ01)
       /\ FiniteOrNull(projected.points[i].powerLawQ50)
       /\ FiniteOrNull(projected.points[i].powerLawQ99)

\* C27: extendSeriesWithProjection gives back the series given when there is
\* no projection date, the date is no date, the series is empty or the target
\* is not after the last point; otherwise it returns a new array of the points
\* given, in order, and then one projected point per day up to the target,
\* with price and moving averages null, isProjected true and every quantile
\* value a finite number or null
C27_Projection ==
    jpc = "done" =>
        IF NothingToProject
        THEN projected = [array |-> "given", points |-> priceSeries]
        ELSE ExtendedByDays /\ FiniteQuantiles

\* the same without the quantile values
C27_ProjectedPoints ==
    jpc = "done" =>
        IF NothingToProject
        THEN projected = [array |-> "given", points |-> priceSeries]
        ELSE ExtendedByDays

-----------------------------------------------------------------------------
(* Properties of the day indices of the scripts (SpecDay)                   *)

\* C28: for every date the day number of the dashboard
\* (convertToBitcoinDayIndex), of the update script (daySinceGenesis) and of
\* the fit and predict functions of scripts/generate-price-db.mjs is the same
\* value
C28_SameDayIndex ==
    /\ convertToBitcoinDayIndex(cal) = daySinceGenesis(cal)
    /\ generateDayNumber(cal) = daySinceGenesis(cal)

\* the three agree on a string that is no date
C28_MalformedAgree ==
    /\ convertToBitcoinDayIndex(BadDate) = NaNIndex
    /\ daySinceGenesis(BadDate) = NaNIndex
    /\ generateDayNumber(BadDate) = NaNIndex

-----------------------------------------------------------------------------
(* Properties of calculatePowerLaw (SpecAttach)                             *)

\* a row whose price, q01, q99 and factor are finite and whose q99 is above
\* its q01
UsableBands(row, currency) ==
    /\ IsFinite(row[CurrencyKey("close", currency)])
    /\ IsFinite(row[CurrencyKey("powerLawQ01", currency)])
    /\ IsFinite(row[CurrencyKey("powerLawQ99", currency)])
    /\ IsFinite(row[CurrencyKey("powerLawFactor", currency)])
    /\ Less(row[CurrencyKey("powerLawQ01", currency)], row[CurrencyKey("powerLawQ99", currency)])

UsableIndices == {i \in 1..Len(attached) : UsableBands(attached[i], kpiCurrency)}

\* a usable row with no usable row of a later date
IsLatestUsable(i) ==
    /\ i \in UsableIndices
    /\ \A j \in UsableIndices : ~DateStringLess(attached[i].date, attached[j].date)

\* the band values and the index percentage shown are those of row i
ShownFromRow(i) ==
    /\ kpi.date = attached[i].date
    /\ kpi.q01 = attached[i][CurrencyKey("powerLawQ01", kpiCurrency)]
    /\ kpi.q99 = attached[i][CurrencyKey("powerLawQ99", kpiCurrency)]
    /\ kpi.q50 = FiniteOrDash(attached[i][CurrencyKey("powerLawQ50", kpiCurrency)])
    /\ kpi.percent = IndexPercent(attached[i][CurrencyKey("powerLawFactor", kpiCurrency)])

\* the percentile shown counts the usable rows whose factor is above the
\* factor of row i
PercentileOverUsable(i) ==
    kpi.cheaper =
        Mul(Div(Num(Cardinality({j \in UsableIndices :
                        Less(attached[i][CurrencyKey("powerLawFactor", kpiCurrency)],
                             attached[j][CurrencyKey("powerLawFactor", kpiCurrency)])})),
                Num(Cardinality(UsableIndices))),
            Num(100))

ErrorShown == kpi = [NoKpi EXCEPT !.state = "Fehler"]

\* C29, as stated: every value calculatePowerLaw shows is taken from the
\* latest-dated row whose price, q01, q99 and factor are finite and whose q99
\* is above its q01, so that it shows what it would show for that row alone;
\* without such a row it shows the error state with '-' for every value
C29_OnlyLatestRow ==
    kpiCurrency # "none" =>
        IF UsableIndices = {} THEN ErrorShown
        ELSE \E i \in 1..Len(attached) :
                /\ IsLatestUsable(i)
                /\ kpi = KpiOf(<<attached[i]>>, kpiCurrency)

\* C29, amended: the band values and the index percentage are those of the
\* latest-dated usable row and the percentile is computed from the factors of
\* the usable rows only; without a usable row the error state is shown
C29_NoCrossedBands ==
    kpiCurrency # "none" =>
        IF UsableIndices = {} THEN ErrorShown
        ELSE /\ kpi.state = "shown"
             /\ \E i \in 1..Len(attached) :
                   IsLatestUsable(i) /\ ShownFromRow(i) /\ PercentileOverUsable(i)

\* C29's case: the row of the latest date has crossed bands and the values
\* shown are those of an earlier row
C29_Witness ==
    /\ kpi.state = "shown"
    /\ \E i \in 1..Len(attached) :
          /\ \A j \in 1..Len(attached) : ~DateStringLess(attached[i].date, attached[j].date)
          /\ IsFinite(attached[i][CurrencyKey("powerLawFactor", kpiCurrency)])
          /\ ~Less(attached[i][CurrencyKey("powerLawQ01", kpiCurrency)],
                   attached[i][CurrencyKey("powerLawQ99", kpiCurrency)])
          /\ DateStringLess(kpi.date, attached[i].date)

-----------------------------------------------------------------------------
(* Properties of the indicator buttons (SpecToggle)                         *)

\* the hidden flags of the chart are the negations of the entries of
\* maVisibility
HiddenFollowsVisibility ==
    /\ btcChart.hidden[1] = ~maVisibility.sma50d
    /\ btcChart.hidden[2] = ~maVisibility.sma200d
    /\ btcChart.hidden[3] = ~maVisibility.sma200w
    /\ \A index \in {4, 5, 6} : btcChart.hidden[index] = ~maVisibility.powerlaw

\* C30: after any sequence of clicks on the indicator buttons and calls of
\* updateChart, the hidden flag of every moving-average dataset of the chart
\* is the negation of its maVisibility entry, the three power-law datasets
\* (indices 4, 5, 6) have hidden = !maVisibility.powerlaw, and the formula
\* list of the chart is empty whenever maVisibility.powerlaw is false
C30_VisibilityConsistent ==
    btcChart.exists =>
        /\ HiddenFollowsVisibility
        /\ ~maVisibility.powerlaw => btcChart.formulas = <<>>

\* the same without the formula list
C30_HiddenConsistent == btcChart.exists => HiddenFollowsVisibility

=============================================================================
